---- MODULE Spec2Model ----
(***************************************************************************)
(* A model of pycom: the attribute extractor (src/src/utils.py and         *)
(* src/main.py) and the COM adapter classes of src/src.                    *)
(*                                                                         *)
(* Python objects live in a heap of named objects; an object is a record   *)
(* of its attribute cells and of the attribute names whose assignment it   *)
(* refuses.  A cell holds a value, None, or the way a read of it fails.    *)
(***************************************************************************)
EXTENDS Integers, Sequences, FiniteSets, TLC

VARIABLES heap, last, calls, cls, com, own, result, writes, mcall,
          items, folder, seen, comfolders, wrappers, objects, nav

extractVars == <<heap, last, calls>>
adapterVars == <<cls, com, own, result, writes, mcall>>
storeVars == <<comfolders, wrappers>>
folderVars == <<items, folder, seen, comfolders, wrappers>>
navVars == <<objects, nav>>
vars == <<heap, last, calls, cls, com, own, result, writes, mcall,
          items, folder, seen, comfolders, wrappers, objects, nav>>

(***************************************************************************)
(* Bounds                                                                  *)
(***************************************************************************)
MaxCalls == 2
MaxWrites == 1
MaxItems == 2
MaxFolders == 4
MaxFaultyCalls == 1
MaxObjects == 10
MaxFailing == 2

(***************************************************************************)
(* Python values and attribute cells                                       *)
(***************************************************************************)
None == "None"
\* the attribute does not exist: getattr raises AttributeError
UNDEF == "UNDEF"
\* reading the attribute raises another exception (a COM error)
RAISES == "RAISES"
\* reading the attribute never returns
HANGS == "HANGS"

Vals == {"v1", "v2"}
Names == {"a", "b", "c"}
FromNames == {"a", "b"}

PlainCells == Vals \cup {None, UNDEF}
FailingCells == {UNDEF, RAISES}
SourceCells == Vals \cup {None} \cup FailingCells

Object(attrs, rejects) == [attrs |-> attrs, rejects |-> rejects]

(***************************************************************************)
(* The builtins the extractor uses                                         *)
(***************************************************************************)
\* getattr(obj, name)
getattr_(obj, name) ==
    LET cell == obj.attrs[name] IN
    IF cell = UNDEF THEN [kind |-> "AttributeError", val |-> None]
    ELSE IF cell = RAISES THEN [kind |-> "Exception", val |-> None]
    ELSE IF cell = HANGS THEN [kind |-> "hang", val |-> None]
    ELSE [kind |-> "ok", val |-> cell]

\* setattr(obj, name, value)
setattr_(obj, name, value) ==
    IF name \in obj.rejects
    THEN [kind |-> "AttributeError", obj |-> obj]
    ELSE [kind |-> "ok", obj |-> [obj EXCEPT !.attrs[name] = value]]

(***************************************************************************)
(* extract_attributes, src/src/utils.py                                    *)
(***************************************************************************)
\* mutant: the handler catches AttributeError only
try_getattr_narrow(from_object, from_attr_name) ==
    LET r == getattr_(from_object, from_attr_name) IN
    IF r.kind = "ok" THEN [kind |-> "ok", read |-> "ok", value |-> r.val]
    ELSE IF r.kind = "hang" THEN [kind |-> "hang", read |-> "hang", value |-> None]
    ELSE IF r.kind = "AttributeError"
         THEN [kind |-> "ok", read |-> r.kind, value |-> None]
         ELSE [kind |-> "raised", read |-> r.kind, value |-> None]

\* mutant: a failed read leaves the previous value of the local in place
try_getattr_stale(from_object, from_attr_name) ==
    LET r == getattr_(from_object, from_attr_name) IN
    IF r.kind = "ok" THEN [kind |-> "ok", read |-> "ok", value |-> r.val]
    ELSE IF r.kind = "hang" THEN [kind |-> "hang", read |-> "hang", value |-> None]
    ELSE [kind |-> "ok", read |-> r.kind, value |-> "v1"]

\* mutant: a read that hangs is cut off and counts as a failed read
try_getattr_timeout(from_object, from_attr_name) ==
    LET r == getattr_(from_object, from_attr_name) IN
    IF r.kind = "ok" THEN [kind |-> "ok", read |-> "ok", value |-> r.val]
    ELSE [kind |-> "ok", read |-> r.kind, value |-> None]

\* mutant: the read is not guarded
try_getattr_unguarded(from_object, from_attr_name) ==
    LET r == getattr_(from_object, from_attr_name) IN
    IF r.kind = "ok" THEN [kind |-> "ok", read |-> "ok", value |-> r.val]
    ELSE IF r.kind = "hang" THEN [kind |-> "hang", read |-> "hang", value |-> None]
    ELSE [kind |-> "raised", read |-> r.kind, value |-> None]

\* try: value = getattr(from_object, from_attr_name) / except: value = None
try_getattr(from_object, from_attr_name) ==
    LET r == getattr_(from_object, from_attr_name) IN
    IF r.kind = "ok" THEN [kind |-> "ok", read |-> "ok", value |-> r.val]
    ELSE IF r.kind = "hang" THEN [kind |-> "hang", read |-> "hang", value |-> None]
    ELSE [kind |-> "ok", read |-> r.kind, value |-> None]

ReadEvent(name, kind) == [op |-> "read", name |-> name, result |-> kind]
WriteEvent(name, value, kind) ==
    [op |-> "write", name |-> name, result |-> kind, value |-> value]

\* mutant: a None value is not stored
loop_body_skip_none(st, to_object, from_object, entry) ==
    LET from_attr_name == entry[1]
        to_attr_name == entry[2]
        r == try_getattr(st.heap[from_object], from_attr_name)
        value == r.value
    IN  IF value = None
        THEN [st EXCEPT !.log = Append(@, ReadEvent(from_attr_name, r.read))]
        ELSE [st EXCEPT
                !.heap[to_object] = setattr_(@, to_attr_name, value).obj,
                !.log = @ \o <<ReadEvent(from_attr_name, r.read),
                                WriteEvent(to_attr_name, value, "ok")>>]

\* mutant: the value is stored under the source's attribute name
loop_body_wrong_name(st, to_object, from_object, entry) ==
    LET from_attr_name == entry[1]
        r == try_getattr(st.heap[from_object], from_attr_name)
        value == r.value
    IN  [st EXCEPT
           !.heap[to_object] = setattr_(@, from_attr_name, value).obj,
           !.log = @ \o <<ReadEvent(from_attr_name, r.read),
                           WriteEvent(from_attr_name, value, "ok")>>]

\* mutant: the value is read from the destination object
loop_body_wrong_object(st, to_object, from_object, entry) ==
    LET from_attr_name == entry[1]
        to_attr_name == entry[2]
        r == try_getattr(st.heap[to_object], from_attr_name)
        value == r.value
    IN  [st EXCEPT
           !.heap[to_object] = setattr_(@, to_attr_name, value).obj,
           !.log = @ \o <<ReadEvent(from_attr_name, r.read),
                           WriteEvent(to_attr_name, value, "ok")>>]

\* mutant: a failed read is attempted once more
loop_body_retry(st, to_object, from_object, entry) ==
    LET from_attr_name == entry[1]
        to_attr_name == entry[2]
        first == try_getattr(st.heap[from_object], from_attr_name)
        r == try_getattr(st.heap[from_object], from_attr_name)
        reads == IF first.read = "ok"
                 THEN <<ReadEvent(from_attr_name, first.read)>>
                 ELSE <<ReadEvent(from_attr_name, first.read),
                        ReadEvent(from_attr_name, r.read)>>
    IN  [st EXCEPT
           !.heap[to_object] = setattr_(@, to_attr_name, r.value).obj,
           !.log = @ \o reads \o <<WriteEvent(to_attr_name, r.value, "ok")>>]

\* mutant: a rejected write is swallowed like a failed read
loop_body_guarded_write(st, to_object, from_object, entry) ==
    LET from_attr_name == entry[1]
        to_attr_name == entry[2]
        r == try_getattr(st.heap[from_object], from_attr_name)
        w == setattr_(st.heap[to_object], to_attr_name, r.value)
    IN  IF r.kind = "hang"
        THEN [st EXCEPT !.outcome = "hung",
                        !.log = Append(@, ReadEvent(from_attr_name, "hang"))]
        ELSE [st EXCEPT
                !.heap[to_object] = w.obj,
                !.log = @ \o <<ReadEvent(from_attr_name, r.read),
                                WriteEvent(to_attr_name, r.value, w.kind)>>]

\* one iteration of the for loop, lines 27-32
loop_body(st, to_object, from_object, entry) ==
    LET from_attr_name == entry[1]
        to_attr_name == entry[2]
        r == try_getattr(st.heap[from_object], from_attr_name)
    IN  IF r.kind = "hang"
        THEN [st EXCEPT !.outcome = "hung",
                        !.log = Append(@, ReadEvent(from_attr_name, "hang"))]
        ELSE IF r.kind = "raised"
        THEN [st EXCEPT !.outcome = "raised", !.raisedBy = "getattr",
                        !.log = Append(@, ReadEvent(from_attr_name, r.read))]
        ELSE
        LET value == r.value
            w == setattr_(st.heap[to_object], to_attr_name, value)
        IN  IF w.kind = "ok"
            THEN [st EXCEPT
                    !.heap[to_object] = w.obj,
                    !.log = @ \o <<ReadEvent(from_attr_name, r.read),
                                    WriteEvent(to_attr_name, value, "ok")>>]
            ELSE [st EXCEPT
                    !.outcome = "raised", !.raisedBy = "setattr",
                    !.log = @ \o <<ReadEvent(from_attr_name, r.read),
                                    WriteEvent(to_attr_name, value, w.kind)>>]

RECURSIVE for_loop(_, _, _, _)
\* mutant: the entries are visited last to first
for_loop_reversed(st, to_object, from_object, i) ==
    LET j == Len(st.attrs_map) + 1 - i IN
    IF i > Len(st.attrs_map) \/ st.outcome # "running" THEN st
    ELSE for_loop(loop_body(st, to_object, from_object, st.attrs_map[j]),
                  to_object, from_object, i + 1)

\* mutant: the loop stops after the first entry
for_loop_first_only(st, to_object, from_object, i) ==
    IF i > Len(st.attrs_map) \/ i > 1 \/ st.outcome # "running" THEN st
    ELSE loop_body(st, to_object, from_object, st.attrs_map[i])

\* for from_attr_name, to_attr_name in attrs_map.items(), from entry i on
for_loop(st, to_object, from_object, i) ==
    IF i > Len(st.attrs_map) \/ st.outcome # "running" THEN st
    ELSE for_loop(loop_body(st, to_object, from_object, st.attrs_map[i]),
                  to_object, from_object, i + 1)

StartState(h, attrs_map) ==
    [heap |-> h, attrs_map |-> attrs_map, log |-> <<>>,
     outcome |-> "running", raisedBy |-> "none"]

\* mutant: every attribute of the destination is reset to None first
extract_attributes_preset(h, to_object, from_object, attrs_map) ==
    LET h0 == [h EXCEPT ![to_object].attrs = [n \in Names |-> None]]
        st == for_loop(StartState(h0, attrs_map), to_object, from_object, 1)
    IN  IF st.outcome = "running" THEN [st EXCEPT !.outcome = "returned"]
        ELSE st

\* extract_attributes(to_object, from_object, attrs_map) on heap h; the
\* result holds the heap after the call, how the call ended and the reads
\* and writes it made
extract_attributes(h, to_object, from_object, attrs_map) ==
    LET st == for_loop(StartState(h, attrs_map), to_object, from_object, 1)
    IN  IF st.outcome = "running" THEN [st EXCEPT !.outcome = "returned"]
        ELSE st

(***************************************************************************)
(* extract_attributes, src/main.py                                         *)
(***************************************************************************)
\* mutant: a failed read leaves the destination attribute alone
main_loop_body_skip_failed(st, to_object, from_object, entry) ==
    LET from_attr_name == entry[1]
        to_attr_name == entry[2]
        got == getattr_(st.heap[from_object], from_attr_name)
        w == setattr_(st.heap[to_object], to_attr_name, got.val)
    IN  IF got.kind = "hang"
        THEN [st EXCEPT !.outcome = "hung",
                        !.log = Append(@, ReadEvent(from_attr_name, "hang"))]
        ELSE IF got.kind # "ok"
        THEN [st EXCEPT !.log = Append(@, ReadEvent(from_attr_name, got.kind))]
        ELSE [st EXCEPT
                !.heap[to_object] = w.obj,
                !.outcome = IF w.kind = "ok" THEN @ ELSE "raised",
                !.raisedBy = IF w.kind = "ok" THEN @ ELSE "setattr",
                !.log = @ \o <<ReadEvent(from_attr_name, "ok"),
                                WriteEvent(to_attr_name, got.val, w.kind)>>]

\* one iteration of the for loop of main.py, lines 42-47: the read inside
\* try with a bare except giving None, then the assignment outside it
main_loop_body(st, to_object, from_object, entry) ==
    LET from_attr_name == entry[1]
        to_attr_name == entry[2]
        got == getattr_(st.heap[from_object], from_attr_name)
        value == IF got.kind = "ok" THEN got.val ELSE None
        w == setattr_(st.heap[to_object], to_attr_name, value)
    IN  IF got.kind = "hang"
        THEN [st EXCEPT !.outcome = "hung",
                        !.log = Append(@, ReadEvent(from_attr_name, "hang"))]
        ELSE [st EXCEPT
                !.heap[to_object] = w.obj,
                !.outcome = IF w.kind = "ok" THEN @ ELSE "raised",
                !.raisedBy = IF w.kind = "ok" THEN @ ELSE "setattr",
                !.log = @ \o <<ReadEvent(from_attr_name, got.kind),
                                WriteEvent(to_attr_name, value, w.kind)>>]

RECURSIVE main_for_loop(_, _, _, _)
\* for from_attr_name, to_attr_name in attrs_map.items(), main.py line 42
main_for_loop(st, to_object, from_object, i) ==
    IF i > Len(st.attrs_map) \/ st.outcome # "running" THEN st
    ELSE main_for_loop(main_loop_body(st, to_object, from_object, st.attrs_map[i]),
                       to_object, from_object, i + 1)

\* extract_attributes of main.py, lines 20-48
main_extract_attributes(h, to_object, from_object, attrs_map) ==
    LET st == main_for_loop(StartState(h, attrs_map), to_object, from_object, 1)
    IN  IF st.outcome = "running" THEN [st EXCEPT !.outcome = "returned"]
        ELSE st

(***************************************************************************)
(* The adapter classes of src/src                                          *)
(*                                                                         *)
(* An adapter wraps one COM object.  A COM member holds a plain value, a   *)
(* method or a collection; Python values are records of a type, an         *)
(* enumeration or class name and an integer.                               *)
(***************************************************************************)
PyInt(v) == [type |-> "int", enum |-> "", value |-> v]
Member(e, v) == [type |-> "enum", enum |-> e, value |-> v]
Method(v) == [type |-> "method", enum |-> "", value |-> v]
Collection(n) == [type |-> "list", enum |-> "", value |-> n]
Wrappers(c, n) == [type |-> "wrappers", enum |-> c, value |-> n]
Ref(path) == [type |-> "ref", enum |-> path, value |-> 0]
NoValue == [type |-> "none", enum |-> "", value |-> 0]
Unset == [type |-> "unset", enum |-> "", value |-> 0]
\* a COM member whose read raises a COM error
Failing == [type |-> "raises", enum |-> "", value |-> 0]

Ok(v) == [kind |-> "ok", val |-> v]
Raise(e) == [kind |-> e, val |-> NoValue]

Classes == {"Application", "NameSpace", "Account", "Folder", "MailItem"}

\* integers a COM member may hold: 0 is a value of every enumeration, 1 of
\* every one but OlExchangeConnectionMode, 8 of none that a property uses
ComInts == {0, 1, 8}

\* the enumerations of _enums.py, each with the integers of its members
Enums ==
    [
       OlAddressEntryUserType |-> {0, 1, 2, 3, 4, 5, 10, 11, 20, 30, 40},
       OlAutoDiscoverConnectionMode |-> {0, 1, 2, 3},
       OlAccountType |-> {0, 1, 2, 3, 4, 5},
       OlDefaultFolders |-> {3, 4, 5, 6, 9, 10, 11, 12, 13, 16, 18, 19, 20, 21, 22, 23, 25, 28, 29, 30},
       OlExchangeConnectionMode |-> {0, 100, 200, 300, 400, 500, 600, 700, 800},
       OlFolderDisplayMode |-> {0, 1, 2},
       OlItemType |-> {0, 1, 2, 3, 4, 5, 6, 7, 11, 12},
       OlSharingProvider |-> {0, 1, 2, 3, 4, 5, 6, 7},
       OlShowItemCount |-> {0, 1, 2},
       OlStorageIdentifierType |-> {0, 1, 2},
       OlTableContents |-> {0, 1} ]

\* the property getters of Application: what each reads and how it returns it
ApplicationGetters ==
    { [cls |-> "Application", prop |-> "assistance", kind |-> "attr", com |-> "Assistance", enum |-> ""],
      [cls |-> "Application", prop |-> "com_add_ins", kind |-> "attr", com |-> "COMAddIns", enum |-> ""],
      [cls |-> "Application", prop |-> "data_privacy_options", kind |-> "attr", com |-> "DataPrivacyOptions", enum |-> ""],
      [cls |-> "Application", prop |-> "default_profile_name", kind |-> "attr", com |-> "DefaultProfileName", enum |-> ""],
      [cls |-> "Application", prop |-> "explorers", kind |-> "attr", com |-> "Explorers", enum |-> ""],
      [cls |-> "Application", prop |-> "inspectors", kind |-> "attr", com |-> "inspectors", enum |-> ""],
      [cls |-> "Application", prop |-> "is_trusted", kind |-> "attr", com |-> "IsTrusted", enum |-> ""],
      [cls |-> "Application", prop |-> "language_settings", kind |-> "attr", com |-> "LanguageSettings", enum |-> ""],
      [cls |-> "Application", prop |-> "name", kind |-> "attr", com |-> "Name", enum |-> ""],
      [cls |-> "Application", prop |-> "picker_dialog", kind |-> "attr", com |-> "PickerDialog", enum |-> ""],
      [cls |-> "Application", prop |-> "product_code", kind |-> "attr", com |-> "ProductCode", enum |-> ""],
      [cls |-> "Application", prop |-> "reminders", kind |-> "attr", com |-> "Reminders", enum |-> ""],
      [cls |-> "Application", prop |-> "session", kind |-> "attr", com |-> "Session", enum |-> ""],
      [cls |-> "Application", prop |-> "time_zones", kind |-> "attr", com |-> "TimeZones", enum |-> ""],
      [cls |-> "Application", prop |-> "version", kind |-> "attr", com |-> "Version", enum |-> ""],
      [cls |-> "Application", prop |-> "active_explorer", kind |-> "call", com |-> "ActiveExplorer", enum |-> ""],
      [cls |-> "Application", prop |-> "active_window", kind |-> "call", com |-> "ActiveWindow", enum |-> ""] }

\* the property getters of NameSpace: what each reads and how it returns it
NameSpaceGetters ==
    { [cls |-> "NameSpace", prop |-> "accounts", kind |-> "list", com |-> "Accounts", enum |-> "Account"],
      [cls |-> "NameSpace", prop |-> "address_lists", kind |-> "attr", com |-> "AddressLists", enum |-> ""],
      [cls |-> "NameSpace", prop |-> "auto_discover_connection_mode", kind |-> "enum", com |-> "AutoDiscoverConnectionMode", enum |-> "OlAutoDiscoverConnectionMode"],
      [cls |-> "NameSpace", prop |-> "auto_discover_xml", kind |-> "attr", com |-> "AutoDiscoverXml", enum |-> ""],
      [cls |-> "NameSpace", prop |-> "categories", kind |-> "attr", com |-> "Categories", enum |-> ""],
      [cls |-> "NameSpace", prop |-> "current_profile_name", kind |-> "attr", com |-> "CurrentProfileName", enum |-> ""],
      [cls |-> "NameSpace", prop |-> "current_user", kind |-> "attr", com |-> "CurrentUser", enum |-> ""],
      [cls |-> "NameSpace", prop |-> "default_store", kind |-> "attr", com |-> "DefaultStore", enum |-> ""],
      [cls |-> "NameSpace", prop |-> "exchange_connection_mode", kind |-> "enum", com |-> "ExchangeConnectionMode", enum |-> "OlExchangeConnectionMode"],
      [cls |-> "NameSpace", prop |-> "exchange_mailbox_server_name", kind |-> "attr", com |-> "ExchangeMailboxServerName", enum |-> ""],
      [cls |-> "NameSpace", prop |-> "exchange_mailbox_server_version", kind |-> "attr", com |-> "ExchangeMailboxServerVersion", enum |-> ""],
      [cls |-> "NameSpace", prop |-> "folders", kind |-> "attr", com |-> "Folders", enum |-> ""],
      [cls |-> "NameSpace", prop |-> "offline", kind |-> "attr", com |-> "Offline", enum |-> ""],
      [cls |-> "NameSpace", prop |-> "session", kind |-> "attr", com |-> "Session", enum |-> ""],
      [cls |-> "NameSpace", prop |-> "stores", kind |-> "attr", com |-> "Stores", enum |-> ""],
      [cls |-> "NameSpace", prop |-> "sync_objects", kind |-> "attr", com |-> "SyncObjects", enum |-> ""] }

\* the property getters of Account: what each reads and how it returns it
AccountGetters ==
    { [cls |-> "Account", prop |-> "account_type", kind |-> "enum", com |-> "AccountType", enum |-> "OlAccountType"],
      [cls |-> "Account", prop |-> "application", kind |-> "nav", com |-> "namespace.application", enum |-> ""],
      [cls |-> "Account", prop |-> "auto_discover_connection_mode", kind |-> "enum", com |-> "AutoDiscoverConnectionMode", enum |-> "OlAutoDiscoverConnectionMode"],
      [cls |-> "Account", prop |-> "auto_discover_xml", kind |-> "attr", com |-> "AutoDiscoverXml", enum |-> ""],
      [cls |-> "Account", prop |-> "current_user", kind |-> "call", com |-> "CurrentUser", enum |-> ""],
      [cls |-> "Account", prop |-> "delivery_store", kind |-> "attr", com |-> "DeliveryStore", enum |-> ""],
      [cls |-> "Account", prop |-> "display_name", kind |-> "attr", com |-> "DisplayName", enum |-> ""],
      [cls |-> "Account", prop |-> "exchange_connection_mode", kind |-> "enum", com |-> "ExchangeConnectionMode", enum |-> "OlExchangeConnectionMode"],
      [cls |-> "Account", prop |-> "exchange_mailbox_server_name", kind |-> "attr", com |-> "ExchangeMailboxServerName", enum |-> ""],
      [cls |-> "Account", prop |-> "exchange_mailbox_server_version", kind |-> "attr", com |-> "ExchangeMailboxServerVersion", enum |-> ""],
      [cls |-> "Account", prop |-> "iolk_account", kind |-> "raise", com |-> "NotImplementedError", enum |-> ""],
      [cls |-> "Account", prop |-> "smtp_address", kind |-> "attr", com |-> "SmtpAddress", enum |-> ""],
      [cls |-> "Account", prop |-> "user_name", kind |-> "attr", com |-> "UserName", enum |-> ""] }

\* the property getters of Folder: what each reads and how it returns it
FolderGetters ==
    { [cls |-> "Folder", prop |-> "address_book_name", kind |-> "attr", com |-> "AddressBookName", enum |-> ""],
      [cls |-> "Folder", prop |-> "application", kind |-> "nav", com |-> "account.application", enum |-> ""],
      [cls |-> "Folder", prop |-> "current_view", kind |-> "attr", com |-> "CurrentView", enum |-> ""],
      [cls |-> "Folder", prop |-> "custom_views_only", kind |-> "attr", com |-> "CustomViewsOnly", enum |-> ""],
      [cls |-> "Folder", prop |-> "default_item_type", kind |-> "enum", com |-> "DefaultItemType", enum |-> "OlItemType"],
      [cls |-> "Folder", prop |-> "default_message_class", kind |-> "attr", com |-> "DefaultMessageClass", enum |-> ""],
      [cls |-> "Folder", prop |-> "description", kind |-> "attr", com |-> "Description", enum |-> ""],
      [cls |-> "Folder", prop |-> "entry_id", kind |-> "attr", com |-> "EntryID", enum |-> ""],
      [cls |-> "Folder", prop |-> "folder_path", kind |-> "attr", com |-> "FolderPath", enum |-> ""],
      [cls |-> "Folder", prop |-> "folders", kind |-> "list", com |-> "Folders", enum |-> "Folder"],
      [cls |-> "Folder", prop |-> "in_app_folder_sync_object", kind |-> "attr", com |-> "InAppFolderSyncObject", enum |-> ""],
      [cls |-> "Folder", prop |-> "is_share_point_folder", kind |-> "attr", com |-> "IsSharePointFolder", enum |-> ""],
      [cls |-> "Folder", prop |-> "name", kind |-> "attr", com |-> "Name", enum |-> ""],
      [cls |-> "Folder", prop |-> "property_accessor", kind |-> "attr", com |-> "PropertyAccessor", enum |-> ""],
      [cls |-> "Folder", prop |-> "session", kind |-> "nav", com |-> "account.namespace", enum |-> ""],
      [cls |-> "Folder", prop |-> "show_as_outlook_ab", kind |-> "attr", com |-> "ShowAsOutlookAB", enum |-> ""],
      [cls |-> "Folder", prop |-> "show_item_count", kind |-> "enum", com |-> "ShowItemCount", enum |-> "OlShowItemCount"],
      [cls |-> "Folder", prop |-> "store", kind |-> "nav", com |-> "account", enum |-> ""],
      [cls |-> "Folder", prop |-> "store_id", kind |-> "attr", com |-> "StoreID", enum |-> ""],
      [cls |-> "Folder", prop |-> "unread_item_count", kind |-> "attr", com |-> "UnReadItemCount", enum |-> ""],
      [cls |-> "Folder", prop |-> "user_defined_properties", kind |-> "attr", com |-> "UserDefinedProperties", enum |-> ""],
      [cls |-> "Folder", prop |-> "views", kind |-> "attr", com |-> "Views", enum |-> ""],
      [cls |-> "Folder", prop |-> "web_view_on", kind |-> "attr", com |-> "WebViewOn", enum |-> ""],
      [cls |-> "Folder", prop |-> "web_view_url", kind |-> "attr", com |-> "WebViewURL", enum |-> ""] }

\* the property setters of Folder
FolderSetters ==
    { [cls |-> "Folder", prop |-> "address_book_name", kind |-> "attr", com |-> "AddressBookName", enum |-> ""],
      [cls |-> "Folder", prop |-> "custom_views_only", kind |-> "attr", com |-> "CustomViewsOnly", enum |-> ""],
      [cls |-> "Folder", prop |-> "in_app_folder_sync_object", kind |-> "attr", com |-> "InAppFolderSyncObject", enum |-> ""],
      [cls |-> "Folder", prop |-> "name", kind |-> "attr", com |-> "Name", enum |-> ""],
      [cls |-> "Folder", prop |-> "show_as_outlook_ab", kind |-> "attr", com |-> "ShowAsOutlookAB", enum |-> ""],
      [cls |-> "Folder", prop |-> "show_item_count", kind |-> "enum_unwrap", com |-> "ShowItemCount", enum |-> "OlShowItemCount"],
      [cls |-> "Folder", prop |-> "web_view_on", kind |-> "attr", com |-> "WebViewOn", enum |-> ""],
      [cls |-> "Folder", prop |-> "web_view_url", kind |-> "attr", com |-> "WebViewURL", enum |-> ""] }

\* the property getters of MailItem: what each reads and how it returns it
MailItemGetters ==
    { [cls |-> "MailItem", prop |-> "actions", kind |-> "attr", com |-> "Actions", enum |-> ""],
      [cls |-> "MailItem", prop |-> "alternate_recipient_allowed", kind |-> "attr", com |-> "AlternateRecipientAllowed", enum |-> ""],
      [cls |-> "MailItem", prop |-> "application", kind |-> "nav", com |-> "folder.application", enum |-> ""],
      [cls |-> "MailItem", prop |-> "attachments", kind |-> "attr", com |-> "Attachments", enum |-> ""],
      [cls |-> "MailItem", prop |-> "auto_forwarded", kind |-> "attr", com |-> "AutoForwarded", enum |-> ""],
      [cls |-> "MailItem", prop |-> "auto_resolved_winner", kind |-> "attr", com |-> "AutoResolvedWinner", enum |-> ""],
      [cls |-> "MailItem", prop |-> "bcc", kind |-> "attr", com |-> "BCC", enum |-> ""],
      [cls |-> "MailItem", prop |-> "billing_information", kind |-> "attr", com |-> "BillingInformation", enum |-> ""],
      [cls |-> "MailItem", prop |-> "body", kind |-> "attr", com |-> "Body", enum |-> ""],
      [cls |-> "MailItem", prop |-> "body_format", kind |-> "enum", com |-> "BodyFormat", enum |-> "OlBodyFormat"],
      [cls |-> "MailItem", prop |-> "categories", kind |-> "attr", com |-> "Categories", enum |-> ""],
      [cls |-> "MailItem", prop |-> "cc", kind |-> "attr", com |-> "CC", enum |-> ""],
      [cls |-> "MailItem", prop |-> "companies", kind |-> "attr", com |-> "Companies", enum |-> ""] }

\* the property setters of MailItem
MailItemSetters ==
    { [cls |-> "MailItem", prop |-> "alternate_recipient_allowed", kind |-> "attr", com |-> "AlternateRecipientAllowed", enum |-> ""],
      [cls |-> "MailItem", prop |-> "auto_forwarded", kind |-> "attr", com |-> "AutoForwarded", enum |-> ""],
      [cls |-> "MailItem", prop |-> "bcc", kind |-> "attr", com |-> "BCC", enum |-> ""],
      [cls |-> "MailItem", prop |-> "billing_information", kind |-> "attr", com |-> "BillingInformation", enum |-> ""],
      [cls |-> "MailItem", prop |-> "body", kind |-> "attr", com |-> "Body", enum |-> ""],
      [cls |-> "MailItem", prop |-> "body_format", kind |-> "enum_assert", com |-> "BodyFormat", enum |-> "OlBodyFormat"],
      [cls |-> "MailItem", prop |-> "categories", kind |-> "own", com |-> "Categories", enum |-> ""],
      [cls |-> "MailItem", prop |-> "cc", kind |-> "attr", com |-> "CC", enum |-> ""],
      [cls |-> "MailItem", prop |-> "companies", kind |-> "attr", com |-> "Companies", enum |-> ""] }

\* the COM member each property of Application is named after: the PascalCase
\* form of its snake_case name
ApplicationComNames ==
    { <<"Application", "assistance", "Assistance">>,
      <<"Application", "com_add_ins", "COMAddIns">>,
      <<"Application", "data_privacy_options", "DataPrivacyOptions">>,
      <<"Application", "default_profile_name", "DefaultProfileName">>,
      <<"Application", "explorers", "Explorers">>,
      <<"Application", "inspectors", "Inspectors">>,
      <<"Application", "is_trusted", "IsTrusted">>,
      <<"Application", "language_settings", "LanguageSettings">>,
      <<"Application", "name", "Name">>,
      <<"Application", "picker_dialog", "PickerDialog">>,
      <<"Application", "product_code", "ProductCode">>,
      <<"Application", "reminders", "Reminders">>,
      <<"Application", "session", "Session">>,
      <<"Application", "time_zones", "TimeZones">>,
      <<"Application", "version", "Version">>,
      <<"Application", "active_explorer", "ActiveExplorer">>,
      <<"Application", "active_window", "ActiveWindow">> }

\* the COM member each property of NameSpace is named after: the PascalCase
\* form of its snake_case name
NameSpaceComNames ==
    { <<"NameSpace", "accounts", "Accounts">>,
      <<"NameSpace", "address_lists", "AddressLists">>,
      <<"NameSpace", "auto_discover_connection_mode", "AutoDiscoverConnectionMode">>,
      <<"NameSpace", "auto_discover_xml", "AutoDiscoverXml">>,
      <<"NameSpace", "categories", "Categories">>,
      <<"NameSpace", "current_profile_name", "CurrentProfileName">>,
      <<"NameSpace", "current_user", "CurrentUser">>,
      <<"NameSpace", "default_store", "DefaultStore">>,
      <<"NameSpace", "exchange_connection_mode", "ExchangeConnectionMode">>,
      <<"NameSpace", "exchange_mailbox_server_name", "ExchangeMailboxServerName">>,
      <<"NameSpace", "exchange_mailbox_server_version", "ExchangeMailboxServerVersion">>,
      <<"NameSpace", "folders", "Folders">>,
      <<"NameSpace", "offline", "Offline">>,
      <<"NameSpace", "session", "Session">>,
      <<"NameSpace", "stores", "Stores">>,
      <<"NameSpace", "sync_objects", "SyncObjects">> }

\* the COM member each property of Account is named after: the PascalCase
\* form of its snake_case name
AccountComNames ==
    { <<"Account", "account_type", "AccountType">>,
      <<"Account", "application", "Application">>,
      <<"Account", "auto_discover_connection_mode", "AutoDiscoverConnectionMode">>,
      <<"Account", "auto_discover_xml", "AutoDiscoverXml">>,
      <<"Account", "current_user", "CurrentUser">>,
      <<"Account", "delivery_store", "DeliveryStore">>,
      <<"Account", "display_name", "DisplayName">>,
      <<"Account", "exchange_connection_mode", "ExchangeConnectionMode">>,
      <<"Account", "exchange_mailbox_server_name", "ExchangeMailboxServerName">>,
      <<"Account", "exchange_mailbox_server_version", "ExchangeMailboxServerVersion">>,
      <<"Account", "iolk_account", "IOlkAccount">>,
      <<"Account", "smtp_address", "SmtpAddress">>,
      <<"Account", "user_name", "UserName">> }

\* the COM member each property of Folder is named after: the PascalCase
\* form of its snake_case name
FolderComNames ==
    { <<"Folder", "address_book_name", "AddressBookName">>,
      <<"Folder", "application", "Application">>,
      <<"Folder", "current_view", "CurrentView">>,
      <<"Folder", "custom_views_only", "CustomViewsOnly">>,
      <<"Folder", "default_item_type", "DefaultItemType">>,
      <<"Folder", "default_message_class", "DefaultMessageClass">>,
      <<"Folder", "description", "Description">>,
      <<"Folder", "entry_id", "EntryID">>,
      <<"Folder", "folder_path", "FolderPath">>,
      <<"Folder", "folders", "Folders">>,
      <<"Folder", "in_app_folder_sync_object", "InAppFolderSyncObject">>,
      <<"Folder", "is_share_point_folder", "IsSharePointFolder">>,
      <<"Folder", "name", "Name">>,
      <<"Folder", "property_accessor", "PropertyAccessor">>,
      <<"Folder", "session", "Session">>,
      <<"Folder", "show_as_outlook_ab", "ShowAsOutlookAB">>,
      <<"Folder", "show_item_count", "ShowItemCount">>,
      <<"Folder", "store", "Store">>,
      <<"Folder", "store_id", "StoreID">>,
      <<"Folder", "unread_item_count", "UnReadItemCount">>,
      <<"Folder", "user_defined_properties", "UserDefinedProperties">>,
      <<"Folder", "views", "Views">>,
      <<"Folder", "web_view_on", "WebViewOn">>,
      <<"Folder", "web_view_url", "WebViewURL">> }

\* the COM member each property of MailItem is named after: the PascalCase
\* form of its snake_case name
MailItemComNames ==
    { <<"MailItem", "actions", "Actions">>,
      <<"MailItem", "alternate_recipient_allowed", "AlternateRecipientAllowed">>,
      <<"MailItem", "application", "Application">>,
      <<"MailItem", "attachments", "Attachments">>,
      <<"MailItem", "auto_forwarded", "AutoForwarded">>,
      <<"MailItem", "auto_resolved_winner", "AutoResolvedWinner">>,
      <<"MailItem", "bcc", "BCC">>,
      <<"MailItem", "billing_information", "BillingInformation">>,
      <<"MailItem", "body", "Body">>,
      <<"MailItem", "body_format", "BodyFormat">>,
      <<"MailItem", "categories", "Categories">>,
      <<"MailItem", "cc", "CC">>,
      <<"MailItem", "companies", "Companies">> }

ComNames ==
    ApplicationComNames \cup NameSpaceComNames \cup AccountComNames
        \cup FolderComNames \cup MailItemComNames

Getters ==
    ApplicationGetters \cup NameSpaceGetters \cup AccountGetters
        \cup FolderGetters \cup MailItemGetters
Setters == FolderSetters \cup MailItemSetters

PropsOf(c) == {g.prop : g \in {x \in Getters : x.cls = c}}
WritablePropsOf(c) == {s.prop : s \in {x \in Setters : x.cls = c}}

GetterTable ==
    [c \in Classes |->
        [p \in PropsOf(c) |-> CHOOSE g \in Getters : g.cls = c /\ g.prop = p]]
SetterTable ==
    [c \in Classes |->
        [p \in WritablePropsOf(c) |-> CHOOSE s \in Setters : s.cls = c /\ s.prop = p]]
ComNameTable ==
    [c \in Classes |->
        [p \in PropsOf(c) |-> (CHOOSE t \in ComNames : t[1] = c /\ t[2] = p)[3]]]

GetterOf(c, p) == GetterTable[c][p]
SetterOf(c, p) == SetterTable[c][p]
ComNameOf(c, p) == ComNameTable[c][p]

\* the members of the COM object an adapter of class c wraps
ComMembers(c) == {t[3] : t \in {x \in ComNames : x[1] = c}}
\* the members a getter calls
CalledMembers(c) == {g.com : g \in {x \in Getters : x.cls = c /\ x.kind = "call"}}
\* the members a getter iterates over
ListedMembers(c) == {g.com : g \in {x \in Getters : x.cls = c /\ x.kind = "list"}}
\* the attributes a setter stores on the adapter itself
OwnNames(c) == {s.com : s \in {x \in Setters : x.cls = c /\ x.kind = "own"}}

\* names that differ from a COM member by letter case only
IgnoringCase(name) == IF name = "inspectors" THEN "Inspectors" ELSE name

\* self._x.<name>: a late-bound dispatch object resolves a member name
\* whatever its letter case, an early-bound one needs the exact name
com_getattr_suppressed(comobj, name, case_sensitive) ==
    LET cell(n) == IF comobj[n] = Failing THEN Ok(NoValue) ELSE Ok(comobj[n]) IN
    IF name \in DOMAIN comobj THEN cell(name)
    ELSE IF ~case_sensitive /\ IgnoringCase(name) \in DOMAIN comobj
         THEN cell(IgnoringCase(name))
         ELSE Ok(NoValue)

com_getattr(comobj, name, case_sensitive) ==
    LET cell(n) == IF comobj[n] = Failing THEN Raise("com_error") ELSE Ok(comobj[n]) IN
    IF name \in DOMAIN comobj THEN cell(name)
    ELSE IF ~case_sensitive /\ IgnoringCase(name) \in DOMAIN comobj
         THEN cell(IgnoringCase(name))
         ELSE Raise("AttributeError")

\* _enums.<e>(v)
enum_call(e, v) ==
    IF e \notin DOMAIN Enums THEN Raise("AttributeError")
    ELSE IF v.type = "int" /\ v.value \in Enums[e] THEN Ok(Member(e, v.value))
    ELSE IF v.type = "enum" /\ v.enum = e THEN Ok(v)
    ELSE Raise("ValueError")

\* reading property p of an adapter of class c
property_get(c, comobj, p, case_sensitive) ==
    LET g == GetterOf(c, p) IN
    IF g.kind = "nav" THEN Ok(Ref(g.com))
    ELSE IF g.kind = "raise" THEN Raise(g.com)
    ELSE
    LET r == com_getattr(comobj, g.com, case_sensitive) IN
    IF r.kind # "ok" THEN r
    ELSE IF g.kind = "attr" THEN r
    ELSE IF g.kind = "call"
         THEN IF r.val.type = "method" THEN Ok(PyInt(r.val.value))
              ELSE Raise("TypeError")
    ELSE IF g.kind = "enum" THEN enum_call(g.enum, r.val)
    ELSE IF r.val.type = "list" THEN Ok(Wrappers(g.enum, r.val.value))
         ELSE Raise("TypeError")

\* assigning value to property p of an adapter of class c: the outcome, the
\* COM object and the adapter's own attributes after it
property_set(c, comobj, ownattrs, p, value) ==
    LET s == SetterOf(c, p)
        done(v) == [res |-> Ok(NoValue),
                    com |-> [comobj EXCEPT ![s.com] = v], own |-> ownattrs]
        failed(e) == [res |-> Raise(e), com |-> comobj, own |-> ownattrs]
    IN
    IF s.kind = "attr" THEN done(value)
    ELSE IF s.kind = "own"
         THEN [res |-> Ok(NoValue), com |-> comobj,
               own |-> [ownattrs EXCEPT ![s.com] = value]]
    ELSE IF s.kind = "enum_unwrap"
         THEN IF value.type = "enum" /\ value.enum = s.enum
              THEN done(PyInt(value.value))
              ELSE done(value)
    ELSE \* enum_assert
         IF s.enum \notin DOMAIN Enums THEN failed("AttributeError")
         ELSE IF value.type = "enum" /\ value.enum = s.enum
              THEN done(PyInt(value.value))
         ELSE IF value.type = "int" /\ value.value \in Enums[s.enum]
              THEN done(value)
              ELSE failed("AssertionError")

\* the values a caller assigns to property p: integers, and members of the
\* property's enumeration
SetArgs(c, p) ==
    LET s == SetterOf(c, p) IN
    {PyInt(v) : v \in ComInts}
      \cup (IF s.enum \in DOMAIN Enums
            THEN {Member(s.enum, v) : v \in ComInts \cap Enums[s.enum]}
            ELSE {})

NoAccess == [op |-> "none", prop |-> "", arg |-> Unset, res |-> Ok(NoValue)]

\* a COM object for class c: every member holds 0; a member that a getter
\* calls is a method or a plain value, one that a getter iterates over is
\* a collection
ComObjects(c) ==
    {[m \in ComMembers(c) |->
        IF m \in methods THEN Method(0)
        ELSE IF m \in ListedMembers(c) THEN Collection(0)
        ELSE PyInt(0)] : methods \in SUBSET CalledMembers(c)}

\* the methods of Application: the COM method each invokes, the number of its
\* parameters and the enumeration its last parameter admits
ApplicationMethods ==
    { [cls |-> "Application", method |-> "new", kind |-> "new", com |-> "Dispatch", nparams |-> 0, enum |-> ""],
      [cls |-> "Application", method |-> "advanced_search", kind |-> "forward", com |-> "AdvancedSearch", nparams |-> 4, enum |-> ""],
      [cls |-> "Application", method |-> "copy_file", kind |-> "forward", com |-> "CopyFile", nparams |-> 2, enum |-> ""],
      [cls |-> "Application", method |-> "create_item", kind |-> "forward", com |-> "CreateItem", nparams |-> 1, enum |-> ""],
      [cls |-> "Application", method |-> "create_item_from_template", kind |-> "forward", com |-> "CreateItemFromTemplate", nparams |-> 2, enum |-> ""],
      [cls |-> "Application", method |-> "create_object", kind |-> "forward", com |-> "CreateObject", nparams |-> 1, enum |-> ""],
      [cls |-> "Application", method |-> "get_namespace", kind |-> "wrap_namespace", com |-> "GetNamespace", nparams |-> 1, enum |-> ""],
      [cls |-> "Application", method |-> "get_object_reference", kind |-> "forward", com |-> "GetObjectReference", nparams |-> 2, enum |-> ""],
      [cls |-> "Application", method |-> "is_search_synchronous", kind |-> "forward", com |-> "IsSearchSynchronous", nparams |-> 1, enum |-> ""],
      [cls |-> "Application", method |-> "refresh_form_region_definition", kind |-> "forward", com |-> "RefreshFormRegionDefinition", nparams |-> 1, enum |-> ""] }

\* the methods of NameSpace: the COM method each invokes, the number of its
\* parameters and the enumeration its last parameter admits
NameSpaceMethods ==
    { [cls |-> "NameSpace", method |-> "add_store", kind |-> "forward", com |-> "AddStore", nparams |-> 1, enum |-> ""],
      [cls |-> "NameSpace", method |-> "add_store_ex", kind |-> "forward", com |-> "AddStoreEx", nparams |-> 2, enum |-> ""],
      [cls |-> "NameSpace", method |-> "compare_entry_ids", kind |-> "forward", com |-> "CompareEntryIDs", nparams |-> 2, enum |-> ""],
      [cls |-> "NameSpace", method |-> "create_contact_card", kind |-> "forward", com |-> "CreateContactCard", nparams |-> 1, enum |-> ""],
      [cls |-> "NameSpace", method |-> "create_recipient", kind |-> "forward", com |-> "CreateRecipient", nparams |-> 1, enum |-> ""],
      [cls |-> "NameSpace", method |-> "create_sharing_item", kind |-> "forward", com |-> "CreateSharingItem", nparams |-> 2, enum |-> "OlSharingProvider"],
      [cls |-> "NameSpace", method |-> "dial", kind |-> "forward", com |-> "Dial", nparams |-> 1, enum |-> ""],
      [cls |-> "NameSpace", method |-> "get_address_entry_from_id", kind |-> "forward", com |-> "GetAddressEntryFromID", nparams |-> 1, enum |-> ""],
      [cls |-> "NameSpace", method |-> "get_default_folder", kind |-> "forward", com |-> "GetDefaultFolder", nparams |-> 1, enum |-> "OlDefaultFolders"],
      [cls |-> "NameSpace", method |-> "get_folder_from_id", kind |-> "forward", com |-> "GetItemFromID", nparams |-> 2, enum |-> ""],
      [cls |-> "NameSpace", method |-> "get_global_address_list", kind |-> "forward", com |-> "GetGlobalAddressList", nparams |-> 0, enum |-> ""],
      [cls |-> "NameSpace", method |-> "get_ids_of_names", kind |-> "raise", com |-> "NotImplementedError", nparams |-> 0, enum |-> ""],
      [cls |-> "NameSpace", method |-> "get_item_from_id", kind |-> "forward", com |-> "GetItemFromID", nparams |-> 2, enum |-> ""],
      [cls |-> "NameSpace", method |-> "get_recipient_from_id", kind |-> "forward", com |-> "GetRecipientFromID", nparams |-> 1, enum |-> ""],
      [cls |-> "NameSpace", method |-> "get_select_names_dialog", kind |-> "forward", com |-> "GetSelectNamesDialog", nparams |-> 0, enum |-> ""],
      [cls |-> "NameSpace", method |-> "get_shared_default_folder", kind |-> "forward", com |-> "GetSharedDefaultFolder", nparams |-> 2, enum |-> "OlDefaultFolders"],
      [cls |-> "NameSpace", method |-> "get_store_from_id", kind |-> "forward", com |-> "GetStoreFromID", nparams |-> 1, enum |-> ""],
      [cls |-> "NameSpace", method |-> "logoff", kind |-> "forward", com |-> "Logoff", nparams |-> 0, enum |-> ""],
      [cls |-> "NameSpace", method |-> "logon", kind |-> "forward", com |-> "Logon", nparams |-> 4, enum |-> ""],
      [cls |-> "NameSpace", method |-> "open_shared_folder", kind |-> "forward", com |-> "OpenSharedFolder", nparams |-> 4, enum |-> ""],
      [cls |-> "NameSpace", method |-> "open_shared_item", kind |-> "forward", com |-> "OpenSharedItem", nparams |-> 1, enum |-> ""],
      [cls |-> "NameSpace", method |-> "pick_folder", kind |-> "forward", com |-> "PickFolder", nparams |-> 0, enum |-> ""],
      [cls |-> "NameSpace", method |-> "remove_store", kind |-> "forward", com |-> "RemoveStore", nparams |-> 1, enum |-> ""],
      [cls |-> "NameSpace", method |-> "send_and_receive", kind |-> "forward", com |-> "SendAndReceive", nparams |-> 1, enum |-> ""] }

\* the methods of Account: the COM method each invokes, the number of its
\* parameters and the enumeration its last parameter admits
AccountMethods ==
    { [cls |-> "Account", method |-> "get_address_entry_from_id", kind |-> "forward", com |-> "GetAddressEntryFromID", nparams |-> 1, enum |-> ""],
      [cls |-> "Account", method |-> "get_recipient_from_id", kind |-> "forward", com |-> "GetRecipientFromID", nparams |-> 1, enum |-> ""] }

\* the methods of Folder: the COM method each invokes, the number of its
\* parameters and the enumeration its last parameter admits
FolderMethods ==
    { [cls |-> "Folder", method |-> "add_to_pffavorites", kind |-> "forward", com |-> "AddToPFFavorites", nparams |-> 0, enum |-> ""],
      [cls |-> "Folder", method |-> "copy_to", kind |-> "copy_to", com |-> "CopyTo", nparams |-> 1, enum |-> ""],
      [cls |-> "Folder", method |-> "delete", kind |-> "forward", com |-> "Delete", nparams |-> 0, enum |-> ""],
      [cls |-> "Folder", method |-> "display", kind |-> "forward", com |-> "Display", nparams |-> 0, enum |-> ""],
      [cls |-> "Folder", method |-> "get_calendar_exporter", kind |-> "forward", com |-> "GetCalendarExporter", nparams |-> 0, enum |-> ""],
      [cls |-> "Folder", method |-> "get_custom_icon", kind |-> "forward", com |-> "GetCustomIcon", nparams |-> 0, enum |-> ""],
      [cls |-> "Folder", method |-> "get_explorer", kind |-> "unwrap", com |-> "GetExplorer", nparams |-> 1, enum |-> "OlFolderDisplayMode"],
      [cls |-> "Folder", method |-> "get_storage", kind |-> "forward", com |-> "GetStorage", nparams |-> 2, enum |-> "OlStorageIdentifierType"],
      [cls |-> "Folder", method |-> "get_table", kind |-> "forward", com |-> "GetTable", nparams |-> 2, enum |-> "OlTableContents"],
      [cls |-> "Folder", method |-> "move_to", kind |-> "move_to", com |-> "MoveTo", nparams |-> 1, enum |-> ""],
      [cls |-> "Folder", method |-> "set_custom_icon", kind |-> "forward", com |-> "SetCustomIcon", nparams |-> 1, enum |-> ""] }

\* the COM method each adapter method is named after: the PascalCase form
\* of its snake_case name
MethodComNames ==
    { <<"Application", "advanced_search", "AdvancedSearch">>,
      <<"Application", "copy_file", "CopyFile">>,
      <<"Application", "create_item", "CreateItem">>,
      <<"Application", "create_item_from_template", "CreateItemFromTemplate">>,
      <<"Application", "create_object", "CreateObject">>,
      <<"Application", "get_namespace", "GetNamespace">>,
      <<"Application", "new", "New">>,
      <<"Application", "get_object_reference", "GetObjectReference">>,
      <<"Application", "is_search_synchronous", "IsSearchSynchronous">>,
      <<"Application", "refresh_form_region_definition", "RefreshFormRegionDefinition">>,
      <<"NameSpace", "add_store", "AddStore">>,
      <<"NameSpace", "add_store_ex", "AddStoreEx">>,
      <<"NameSpace", "compare_entry_ids", "CompareEntryIDs">>,
      <<"NameSpace", "create_contact_card", "CreateContactCard">>,
      <<"NameSpace", "create_recipient", "CreateRecipient">>,
      <<"NameSpace", "create_sharing_item", "CreateSharingItem">>,
      <<"NameSpace", "dial", "Dial">>,
      <<"NameSpace", "get_address_entry_from_id", "GetAddressEntryFromID">>,
      <<"NameSpace", "get_default_folder", "GetDefaultFolder">>,
      <<"NameSpace", "get_folder_from_id", "GetFolderFromID">>,
      <<"NameSpace", "get_global_address_list", "GetGlobalAddressList">>,
      <<"NameSpace", "get_ids_of_names", "GetIDsOfNames">>,
      <<"NameSpace", "get_item_from_id", "GetItemFromID">>,
      <<"NameSpace", "get_recipient_from_id", "GetRecipientFromID">>,
      <<"NameSpace", "get_select_names_dialog", "GetSelectNamesDialog">>,
      <<"NameSpace", "get_shared_default_folder", "GetSharedDefaultFolder">>,
      <<"NameSpace", "get_store_from_id", "GetStoreFromID">>,
      <<"NameSpace", "logoff", "Logoff">>,
      <<"NameSpace", "logon", "Logon">>,
      <<"NameSpace", "open_shared_folder", "OpenSharedFolder">>,
      <<"NameSpace", "open_shared_item", "OpenSharedItem">>,
      <<"NameSpace", "pick_folder", "PickFolder">>,
      <<"NameSpace", "remove_store", "RemoveStore">>,
      <<"NameSpace", "send_and_receive", "SendAndReceive">>,
      <<"Account", "get_address_entry_from_id", "GetAddressEntryFromID">>,
      <<"Account", "get_recipient_from_id", "GetRecipientFromID">>,
      <<"Folder", "add_to_pffavorites", "AddToPFFavorites">>,
      <<"Folder", "copy_to", "CopyTo">>,
      <<"Folder", "delete", "Delete">>,
      <<"Folder", "display", "Display">>,
      <<"Folder", "get_calendar_exporter", "GetCalendarExporter">>,
      <<"Folder", "get_custom_icon", "GetCustomIcon">>,
      <<"Folder", "get_explorer", "GetExplorer">>,
      <<"Folder", "get_storage", "GetStorage">>,
      <<"Folder", "get_table", "GetTable">>,
      <<"Folder", "move_to", "MoveTo">>,
      <<"Folder", "set_custom_icon", "SetCustomIcon">> }

MethodsAll ==
    ApplicationMethods \cup NameSpaceMethods \cup AccountMethods \cup FolderMethods

\* the method tables as functions of the class and the method name
MethodTable ==
    [c \in Classes |->
        [m \in {x.method : x \in {y \in MethodsAll : y.cls = c}} |->
            CHOOSE x \in MethodsAll : x.cls = c /\ x.method = m]]

MethodComNameTable ==
    [c \in Classes |->
        [m \in DOMAIN MethodTable[c] |->
            (CHOOSE t \in MethodComNames : t[1] = c /\ t[2] = m)[3]]]

MethodOf(c, m) == MethodTable[c][m]

\* a Folder adapter over COM folder k, and the COM folder it wraps
FolderAdapter(k) == [type |-> "wrapper", enum |-> "Folder", value |-> k]
ComFolder(k) == [type |-> "com", enum |-> "Folder", value |-> k]

\* the parameters of each adapter class's __init__, self left out
InitParams ==
    [Application |-> <<"application">>,
     NameSpace |-> <<"application", "namespace_type", "namespace">>,
     Account |-> <<"namespace", "account">>,
     Folder |-> <<"account", "folder">>,
     MailItem |-> <<"folder", "mail_item">>]

\* a COM folder whose Items read raises a COM error, and a COM object that
\* is no folder and has no Items
BrokenFolder(k) == [type |-> "com", enum |-> "BrokenFolder", value |-> k]
ComObject(k) == [type |-> "com", enum |-> "Object", value |-> k]

\* x.Items: a COM folder answers its collection; the read of a broken
\* folder raises the COM error; an integer and any other object have no
\* attribute Items
Items_read(x) ==
    IF x.type = "com" /\ x.enum = "Folder" THEN Ok(Collection(x.value))
    ELSE IF x.type = "com" /\ x.enum = "BrokenFolder" THEN Raise("com_error")
    ELSE Raise("AttributeError")

\* c(*args): an adapter of class c over the COM object passed last; Python
\* raises TypeError when the number of arguments is not that of __init__.
\* The constructors store their arguments; Folder.__init__ also reads
\* self._folder.Items (folder.py line 167), and a failure of that read
\* leaves the constructor
new(c, args) ==
    IF Len(args) # Len(InitParams[c]) THEN Raise("TypeError")
    ELSE IF c = "Folder" /\ Items_read(args[2]).kind # "ok"
    THEN Items_read(args[2])
    ELSE Ok([type |-> "wrapper", enum |-> c, value |-> args[Len(args)].value])

\* destination_folder._folder
folder_of(w) == ComFolder(w.value)

\* one invocation of a method of the wrapped COM object
Invocation(name, args) == [name |-> name, args |-> args]

\* adapter.m(*args) on an adapter of class c, where ret is what the COM
\* object answers to the invocation: the invocations made on the COM object
\* and the outcome of the call
method_call(c, m, args, ret) ==
    LET x == MethodOf(c, m)
        n == Len(args)
        unwrapped == [i \in 1..n |->
                        IF i = n /\ args[i].type = "enum" /\ args[i].enum = x.enum
                        THEN PyInt(args[i].value) ELSE args[i]]
    IN
    IF x.kind = "forward"
    THEN [invoked |-> <<Invocation(x.com, args)>>, res |-> ret]
    ELSE IF x.kind = "unwrap"
    THEN [invoked |-> <<Invocation(x.com, unwrapped)>>, res |-> ret]
    ELSE IF x.kind = "copy_to"
    THEN [invoked |-> <<Invocation(x.com, <<folder_of(args[1])>>)>>,
          res |-> IF ret.kind = "ok"
                  THEN new("Folder", <<Ref("account"), ret.val>>) ELSE ret]
    ELSE IF x.kind = "move_to"
    THEN [invoked |-> <<Invocation(x.com, <<folder_of(args[1])>>)>>,
          res |-> IF ret.kind = "ok" THEN Ok(NoValue) ELSE ret]
    ELSE IF x.kind = "wrap_namespace"
    \* return NameSpace(self, namespace)
    THEN [invoked |-> <<Invocation(x.com, args)>>,
          res |-> IF ret.kind = "ok"
                  THEN new("NameSpace", <<Ref("self"), ret.val>>) ELSE ret]
    ELSE IF x.kind = "new"
    \* application = Dispatch('Outlook.Application'); return cls(application):
    \* ret is Dispatch's answer, nothing is invoked on a wrapped COM object
    THEN [invoked |-> <<>>,
          res |-> IF ret.kind = "ok" THEN new("Application", <<ret.val>>) ELSE ret]
    ELSE \* raise
         [invoked |-> <<>>, res |-> Raise(x.com)]

\* the arguments a caller passes to method m: integers, members of the
\* enumeration the last parameter admits, Folder adapters for a destination
\* folder
MethodArgs(c, m) ==
    LET x == MethodOf(c, m)
        ints == {PyInt(v) : v \in ComInts}
        members == IF x.enum \in DOMAIN Enums
                   THEN {Member(x.enum, v) : v \in ComInts \cap Enums[x.enum]}
                   ELSE {}
    IN
    IF x.kind \in {"copy_to", "move_to"}
    THEN {<<FolderAdapter(k)>> : k \in ComInts}
    ELSE {a \in [1..x.nparams -> ints \cup members] :
            \A i \in 1..x.nparams : a[i] \in members => i = x.nparams}

\* what the COM object answers to an invocation: an integer, a COM folder
\* with readable or failing Items, another COM object, or a COM error
ComReturns ==
    {Ok(PyInt(v)) : v \in ComInts}
        \cup {Ok(ComFolder(8)), Ok(BrokenFolder(8)), Ok(ComObject(8)), Raise("com_error")}

NoMethodCall ==
    [method |-> "", args |-> <<>>, ret |-> Ok(NoValue), invoked |-> <<>>,
     res |-> Ok(NoValue)]

\* a mail item of a COM folder, and a Python list
Item(k) == [type |-> "item", enum |-> "", value |-> k]
PyList(s) == [type |-> "pylist", enum |-> "", value |-> s]

ItemIds == 1..(MaxItems + 1)

\* the states of a COM folder's Items collection: up to MaxItems distinct
\* items in some order
ItemSeqs ==
    {s \in UNION {[1..n -> ItemIds] : n \in 0..MaxItems} :
        \A i, j \in 1..Len(s) : s[i] = s[j] => i = j}

\* UserList.__init__(initlist): self.data = list(initlist), a new list
\* holding the elements initlist has at that moment
UserList_init_unfilled(initlist) == <<>>

UserList_init(initlist) == [i \in 1..Len(initlist) |-> initlist[i]]

\* Folder(account, folder): super().__init__(self._folder.Items); fetched
\* records the Items the constructor found
Folder_init(comitems) ==
    [data |-> UserList_init(comitems), fetched |-> comitems]

\* len(folder)
Folder_len(f) == Ok(PyInt(Len(f.data)))

\* folder[i]: self.data[i], with Python's indices (from 0, negative ones
\* count from the end)
Folder_getitem(f, i) ==
    LET n == Len(f.data)
        k == IF i < 0 THEN i + n ELSE i
    IN  IF k >= 0 /\ k < n THEN Ok(Item(f.data[k + 1])) ELSE Raise("IndexError")

\* iter(folder): folder[0], folder[1], ... until IndexError
RECURSIVE iterate(_, _)
iterate(f, i) ==
    LET r == Folder_getitem(f, i) IN
    IF r.kind # "ok" THEN <<>> ELSE <<r.val.value>> \o iterate(f, i + 1)

Folder_iter(f) == Ok(PyList(iterate(f, 0)))

\* folder.items(): list(self.data)
Folder_items(f) == Ok(PyList([i \in 1..Len(f.data) |-> f.data[i]]))

NotSeen == [op |-> "none", index |-> 0, res |-> Ok(NoValue)]

\* the list operations of a Folder: the Folder after the operation and the
\* operation's outcome.  Folder overrides __setitem__ and __delitem__; the
\* others are UserList's, which act on self.data
Done(f, d) == [folder |-> [f EXCEPT !.data = d], res |-> Ok(NoValue)]
Refused(f, e) == [folder |-> f, res |-> Raise(e)]

\* folder[i] = v
Folder_setitem(f, i, v) == Refused(f, "NotImplementedError")

\* del folder[i]
Folder_delitem(f, i) == Refused(f, "NotImplementedError")

\* folder.append(v): self.data.append(v)
Folder_append(f, v) == Done(f, Append(f.data, v))

\* folder.extend(other): self.data.extend(other)
Folder_extend(f, other) == Done(f, f.data \o other)

\* folder += other: self.data += other
Folder_iadd(f, other) == Done(f, f.data \o other)

\* folder.insert(i, v): self.data.insert(i, v); an index past the end
\* appends
Folder_insert(f, i, v) ==
    LET pos == IF i > Len(f.data) THEN Len(f.data) ELSE i IN
    Done(f, SubSeq(f.data, 1, pos) \o <<v>> \o SubSeq(f.data, pos + 1, Len(f.data)))

\* folder.pop(): self.data.pop(-1)
Folder_pop(f) ==
    IF f.data = <<>> THEN Refused(f, "IndexError")
    ELSE [folder |-> [f EXCEPT !.data = SubSeq(f.data, 1, Len(f.data) - 1)],
          res |-> Ok(Item(f.data[Len(f.data)]))]

\* folder.remove(v): self.data.remove(v), the first occurrence
Folder_remove(f, v) ==
    IF \A j \in 1..Len(f.data) : f.data[j] # v THEN Refused(f, "ValueError")
    ELSE LET k == CHOOSE j \in 1..Len(f.data) :
                     /\ f.data[j] = v
                     /\ \A h \in 1..(j - 1) : f.data[h] # v
         IN  Done(f, SubSeq(f.data, 1, k - 1) \o SubSeq(f.data, k + 1, Len(f.data)))

\* folder.clear(): self.data.clear()
Folder_clear(f) == Done(f, <<>>)

\* folder.reverse(): self.data.reverse()
Folder_reverse(f) == Done(f, [j \in 1..Len(f.data) |-> f.data[Len(f.data) + 1 - j]])

\* folder.sort(key=...): self.data.sort(...), here by the items' numbers
RECURSIVE sorted(_)
sorted(d) ==
    IF d = <<>> THEN <<>>
    ELSE LET k == CHOOSE j \in 1..Len(d) :
                     /\ \A h \in 1..Len(d) : d[j] <= d[h]
                     /\ \A h \in 1..(j - 1) : d[h] # d[j]
         IN  <<d[k]>> \o sorted(SubSeq(d, 1, k - 1) \o SubSeq(d, k + 1, Len(d)))

Folder_sort(f) == Done(f, sorted(f.data))

\* folder *= n: self.data *= n
RECURSIVE repeated(_, _)
repeated(d, n) == IF n <= 0 THEN <<>> ELSE d \o repeated(d, n - 1)

Folder_imul(f, n) == Done(f, repeated(f.data, n))

\* l = folder.items(); l.append(v): the list the caller got, the Folder as
\* it is
Folder_items_append(f, v) ==
    [folder |-> f, res |-> Ok(PyList(Append(Folder_items(f).val.value, v)))]

\* the arguments of extend and +=
Others == {<<>>} \cup {<<k>> : k \in ItemIds}

\* no folder is under test
NoFolder ==
    /\ items = <<>>
    /\ folder = Folder_init(<<>>)
    /\ seen = NotSeen
    /\ comfolders = <<>>
    /\ wrappers = {}

\* the adapter objects a program holds, numbered in order of creation: the
\* class, the parent handed to __init__ (0 for an Application), the COM
\* object wrapped, and the Application it was reached from
AdapterObject(c, parent, comobj, origin) ==
    [cls |-> c, parent |-> parent, com |-> comobj, origin |-> origin]

ComIds == 1..2

\* the contents of a COM collection (Accounts, Folders)
ComCollections ==
    {s \in UNION {[1..n -> ComIds] : n \in 0..2} :
        \A i, j \in 1..Len(s) : s[i] = s[j] => i = j}

\* mutant: the wrappers come in the reverse of the collection's order
NameSpace_accounts_reversed(objs, ns, accounts) ==
    [i \in 1..Len(accounts) |->
        AdapterObject("Account", ns, accounts[Len(accounts) + 1 - i], objs[ns].origin)]

\* namespace.accounts: [Account(self, acct) for acct in accounts]
NameSpace_accounts(objs, ns, accounts) ==
    [i \in 1..Len(accounts) |->
        AdapterObject("Account", ns, accounts[i], objs[ns].origin)]

\* folder.folders: [Folder(self.account, f) for f in folders]
folders_of(objs, f, folders) ==
    [i \in 1..Len(folders) |->
        AdapterObject("Folder", objs[f].parent, folders[i], objs[f].origin)]

\* mutant: the copy is given the destination folder's account
copy_of_with_destination_account(objs, f, destination_folder, new_folder) ==
    AdapterObject("Folder", objs[destination_folder].parent, new_folder, objs[f].origin)

\* folder.copy_to(destination_folder): Folder(self.account, _new_folder)
copy_of(objs, f, destination_folder, new_folder) ==
    AdapterObject("Folder", objs[f].parent, new_folder, objs[f].origin)

\* x.application: the attribute of a NameSpace, self.namespace.application
\* of an Account, self.account.application of a Folder,
\* self.folder.application of a MailItem
RECURSIVE application_of(_, _)
application_of(objs, x) ==
    IF objs[x].cls = "Application" THEN x
    ELSE IF objs[x].cls = "NameSpace" THEN objs[x].parent
    ELSE application_of(objs, objs[x].parent)

\* account.namespace, folder.account, folder.session
namespace_of(objs, x) == objs[x].parent
account_of(objs, x) == objs[x].parent
session_of(objs, x) == namespace_of(objs, account_of(objs, x))

NoNavigation == [op |-> "none", on |-> 0, coll |-> <<>>, made |-> <<>>, res |-> Ok(NoValue)]

\* no adapter objects are under test
NoNav ==
    /\ objects = <<>>
    /\ nav = NoNavigation

(***************************************************************************)
(* Inputs                                                                  *)
(***************************************************************************)
Range(s) == {s[i] : i \in 1..Len(s)}

\* a dict in insertion order: a sequence of (key, value) pairs with
\* distinct keys
IsDict(m) == \A i, j \in 1..Len(m) : m[i][1] = m[j][1] => i = j

AttrMaps ==
    {m \in UNION {[1..n -> FromNames \X Names] : n \in 0..Cardinality(FromNames)} :
        IsDict(m)}

NoCall ==
    [n |-> 0, repeat |-> FALSE, to |-> "dst", from |-> "src", map |-> <<>>,
     before |-> [o \in {"dst", "src"} |-> Object([n \in Names |-> UNDEF], {})],
     res |-> StartState([o \in {"dst", "src"} |-> Object([n \in Names |-> UNDEF], {})], <<>>)]

\* the heap holds a source whose attributes a and b are readable, None,
\* missing or raising, and a destination in any state that accepts writes;
\* the two are distinct objects, as at the call site (main.py line 176)
InitExtract ==
    /\ \E s \in [FromNames -> SourceCells], d \in [Names -> PlainCells] :
         heap = [o \in {"dst", "src"} |->
                   IF o = "src"
                   THEN Object([n \in Names |-> IF n \in FromNames THEN s[n] ELSE UNDEF], {})
                   ELSE Object(d, {})]
    /\ last = NoCall
    /\ calls = 0

\* extract_attributes is not under test
NoExtract ==
    /\ heap = NoCall.before
    /\ last = NoCall
    /\ calls = 0

\* no adapter is under test
NoAdapter ==
    /\ cls = "none"
    /\ com = <<>>
    /\ own = <<>>
    /\ result = NoAccess
    /\ writes = 0
    /\ mcall = NoMethodCall

\* a call extract_attributes(dst, src, m); last.repeat tells that the call
\* before it had the same map and found the source in the same state
Call(m) ==
    /\ calls < MaxCalls
    /\ LET res == extract_attributes(heap, "dst", "src", m)
       IN  /\ heap' = res.heap
           /\ last' = [n |-> calls + 1,
                       repeat |-> (/\ calls > 0
                                   /\ m = last.map
                                   /\ heap["src"] = last.before["src"]),
                       to |-> "dst", from |-> "src", map |-> m,
                       before |-> heap, res |-> res]
    /\ calls' = calls + 1
    /\ UNCHANGED <<adapterVars, folderVars, navVars>>

NextExtract == \E m \in AttrMaps : Call(m)

Init == InitExtract /\ NoAdapter /\ NoFolder /\ NoNav
Next == NextExtract
Spec == Init /\ [][Next]_vars

(***************************************************************************)
(* An adapter of one of the classes over a COM object                      *)
(***************************************************************************)
InitAdapter ==
    /\ cls \in Classes
    /\ com \in ComObjects(cls)
    /\ own = [n \in OwnNames(cls) |-> Unset]
    /\ result = NoAccess
    /\ writes = 0
    /\ mcall = NoMethodCall
    /\ heap = NoCall.before
    /\ last = NoCall
    /\ calls = 0
    /\ NoFolder
    /\ NoNav

\* the host application changes a member of the COM object
ComChange(m, v) ==
    /\ writes < MaxWrites
    /\ m \in DOMAIN com
    /\ com[m] # Failing
    /\ com[m].value # v
    /\ com' = [com EXCEPT ![m].value = v]
    /\ writes' = writes + 1
    /\ result' = NoAccess
    /\ UNCHANGED <<cls, own, mcall, extractVars, navVars, folderVars>>

\* a member of the COM object starts to fail: reading it raises
ComBreak(m) ==
    /\ writes < MaxWrites
    /\ m \in DOMAIN com
    /\ com[m] # Failing
    /\ com' = [com EXCEPT ![m] = Failing]
    /\ writes' = writes + 1
    /\ result' = NoAccess
    /\ UNCHANGED <<cls, own, mcall, extractVars, navVars, folderVars>>

\* adapter.p
Get(p) ==
    /\ p \in DOMAIN GetterTable[cls]
    /\ \E case_sensitive \in BOOLEAN :
         result' = [op |-> "get", prop |-> p,
                    arg |-> IF result.op = "set" /\ result.prop = p
                                 /\ result.res.kind = "ok"
                            THEN result.arg ELSE Unset,
                    res |-> property_get(cls, com, p, case_sensitive)]
    /\ UNCHANGED <<cls, com, own, writes, mcall, extractVars, navVars, folderVars>>

\* adapter.p = v
Set(p, v) ==
    /\ writes < MaxWrites
    /\ p \in DOMAIN SetterTable[cls]
    /\ v \in SetArgs(cls, p)
    /\ LET r == property_set(cls, com, own, p, v) IN
         /\ com' = r.com
         /\ own' = r.own
         /\ result' = [op |-> "set", prop |-> p, arg |-> v, res |-> r.res]
    /\ writes' = writes + 1
    /\ UNCHANGED <<cls, mcall, extractVars, navVars, folderVars>>

NextAdapter ==
    \/ \E m \in DOMAIN com, v \in ComInts : ComChange(m, v)
    \/ \E m \in DOMAIN com : ComBreak(m)
    \/ \E p \in DOMAIN GetterTable[cls] : Get(p)
    \/ \E p \in DOMAIN SetterTable[cls] : \E v \in SetArgs(cls, p) : Set(p, v)

SpecAdapter == InitAdapter /\ [][NextAdapter]_vars

(***************************************************************************)
(* extract_attributes over objects that hang or reject                     *)
(***************************************************************************)
\* the source's attributes a and b may also never return when read, and
\* the destination may reject the assignment of some attribute
InitFaulty ==
    /\ \E s \in [FromNames -> SourceCells \cup {HANGS}],
          d \in {UNDEF, "v2"}, r \in Names \cup {"none"} :
         heap = [o \in {"dst", "src"} |->
                   IF o = "src"
                   THEN Object([n \in Names |-> IF n \in FromNames THEN s[n] ELSE UNDEF], {})
                   ELSE Object([n \in Names |-> d], {r} \cap Names)]
    /\ last = NoCall
    /\ calls = 0
    /\ NoAdapter
    /\ NoNav
    /\ NoFolder

\* a call extract_attributes(dst, src, m); no call follows one that hangs
CallFaulty(m) ==
    /\ calls < MaxFaultyCalls
    /\ last.res.outcome # "hung"
    /\ LET res == extract_attributes(heap, "dst", "src", m)
       IN  /\ heap' = res.heap
           /\ last' = [n |-> calls + 1,
                       repeat |-> (/\ calls > 0
                                   /\ m = last.map
                                   /\ heap["src"] = last.before["src"]),
                       to |-> "dst", from |-> "src", map |-> m,
                       before |-> heap, res |-> res]
    /\ calls' = calls + 1
    /\ UNCHANGED <<adapterVars, folderVars, navVars>>

NextFaulty == \E m \in AttrMaps : CallFaulty(m)

SpecFaulty == InitFaulty /\ [][NextFaulty]_vars

(***************************************************************************)
(* The two definitions of extract_attributes on the same inputs            *)
(***************************************************************************)
\* a call of main.py's extract_attributes(dst, src, m)
CallMain(m) ==
    /\ calls < MaxFaultyCalls
    /\ last.res.outcome # "hung"
    /\ LET res == main_extract_attributes(heap, "dst", "src", m)
       IN  /\ heap' = res.heap
           /\ last' = [n |-> calls + 1,
                       repeat |-> (/\ calls > 0
                                   /\ m = last.map
                                   /\ heap["src"] = last.before["src"]),
                       to |-> "dst", from |-> "src", map |-> m,
                       before |-> heap, res |-> res]
    /\ calls' = calls + 1
    /\ UNCHANGED <<adapterVars, folderVars, navVars>>

\* the call is made through either module
NextBoth ==
    \/ \E m \in AttrMaps : CallFaulty(m)
    \/ \E m \in AttrMaps : CallMain(m)

SpecBoth == InitFaulty /\ [][NextBoth]_vars

(***************************************************************************)
(* The constructors of main.py                                             *)
(***************************************************************************)
\* the attributes Application.__init__ declares, lines 137-151
ApplicationDeclared ==
    {"assistance", "com_add_ins", "data_privacy_options",
     "default_profile_name", "explorers", "inspectors",
     "is_trusted", "language_settings", "name",
     "picker_dialog", "product_code", "reminders",
     "session", "time_zones", "version"}

\* mutant: the map lacks its last entry
ApplicationAttrsMap_incomplete ==
    <<<<"Assistance", "assistance">>,
      <<"COMAddIns", "com_add_ins">>,
      <<"DataPrivacyOptions", "data_privacy_options">>,
      <<"DefaultProfileName", "default_profile_name">>,
      <<"Explorers", "explorers">>,
      <<"Inspectors", "inspectors">>,
      <<"IsTrusted", "is_trusted">>,
      <<"LanguageSettings", "language_settings">>,
      <<"Name", "name">>,
      <<"PickerDialog", "picker_dialog">>,
      <<"ProductCode", "product_code">>,
      <<"Reminders", "reminders">>,
      <<"Session", "session">>,
      <<"TimeZones", "time_zones">>>>

\* attrs_map of Application.__init__, lines 153-169
ApplicationAttrsMap ==
    <<<<"Assistance", "assistance">>,
      <<"COMAddIns", "com_add_ins">>,
      <<"DataPrivacyOptions", "data_privacy_options">>,
      <<"DefaultProfileName", "default_profile_name">>,
      <<"Explorers", "explorers">>,
      <<"Inspectors", "inspectors">>,
      <<"IsTrusted", "is_trusted">>,
      <<"LanguageSettings", "language_settings">>,
      <<"Name", "name">>,
      <<"PickerDialog", "picker_dialog">>,
      <<"ProductCode", "product_code">>,
      <<"Reminders", "reminders">>,
      <<"Session", "session">>,
      <<"TimeZones", "time_zones">>,
      <<"Version", "version">>>>

\* self.<name> = None for every declared attribute
declare(obj, names) ==
    [obj EXCEPT !.attrs = [n \in DOMAIN obj.attrs |-> IF n \in names THEN None ELSE obj.attrs[n]]]

\* Application.__init__: the declarations, then
\* extract_attributes(self, self._application, attrs_map)
Application_init(h, self, application) ==
    main_extract_attributes([h EXCEPT ![self] = declare(h[self], ApplicationDeclared)],
                            self, application, ApplicationAttrsMap)

\* a COM object whose members are readable ("v1") but for a set of at most
\* MaxFailing members that fail alike, and an object about to be
\* constructed, which has no attributes yet
ComAndSelf(members, attributes) ==
    {[o \in {"dst", "src"} |->
        IF o = "src"
        THEN Object([n \in members |-> IF n \in failing THEN cell ELSE "v1"], {})
        ELSE Object([n \in attributes |-> UNDEF], {})] :
      failing \in UNION {{{f[i] : i \in 1..k} : f \in [1..k -> members]} : k \in 0..MaxFailing},
      cell \in FailingCells}

InitApplication ==
    /\ heap \in ComAndSelf({e[1] : e \in {ApplicationAttrsMap[i] : i \in 1..Len(ApplicationAttrsMap)}},
                           ApplicationDeclared)
    /\ last = NoCall
    /\ calls = 0
    /\ NoAdapter
    /\ NoNav
    /\ NoFolder

\* Application()
ConstructApplication ==
    /\ last = NoCall
    /\ LET res == Application_init(heap, "dst", "src")
       IN  /\ heap' = res.heap
           /\ last' = [n |-> calls + 1, repeat |-> FALSE,
                       to |-> "dst", from |-> "src", map |-> ApplicationAttrsMap,
                       before |-> heap, res |-> res]
    /\ calls' = calls + 1
    /\ UNCHANGED <<adapterVars, folderVars, navVars>>

\* after the construction the host changes COM property m; at most
\* MaxWrites properties change
ComPropertyChange(m) ==
    /\ last # NoCall
    /\ m \in DOMAIN heap["src"].attrs
    /\ heap["src"].attrs[m] = "v1"
    /\ Cardinality({n \in DOMAIN heap["src"].attrs : heap["src"].attrs[n] = "v2"}) < MaxWrites
    /\ heap' = [heap EXCEPT !["src"].attrs[m] = "v2"]
    /\ UNCHANGED <<last, calls, adapterVars, folderVars, navVars>>

NextApplication ==
    \/ ConstructApplication
    \/ \E m \in DOMAIN heap["src"].attrs : ComPropertyChange(m)

SpecApplication == InitApplication /\ [][NextApplication]_vars

\* the attributes Inbox.__init__ declares, lines 1027-1052
InboxDeclared ==
    {"address_book_name", "class_", "current_view",
     "custom_views_only", "default_item_type", "default_message_class",
     "description", "entry_id", "folder_path",
     "folders", "in_app_folder_sync_object", "is_sharepoint_folder",
     "items", "name", "parent",
     "property_accessor", "session", "show_as_outlook_ab",
     "show_item_count", "store", "store_id",
     "unread_item_count", "user_defined_properties", "views",
     "web_view_on", "web_view_url"}

\* all_attrs of Inbox.__init__, lines 1054-1080
InboxAllAttrs ==
    <<<<"AddressBookName", "address_book_name">>,
      <<"Class", "class_">>,
      <<"CurrentView", "current_view">>,
      <<"DefaultItemType", "default_item_type">>,
      <<"DefaultMessageClass", "default_message_class">>,
      <<"Description", "description">>,
      <<"EntryID", "entry_id">>,
      <<"FolderPath", "folder_path">>,
      <<"Folders", "folders">>,
      <<"InAppFolderSyncObject", "in_app_folder_sync_object">>,
      <<"IsSharePointFolder", "is_sharepoint_folder">>,
      <<"Items", "items">>,
      <<"Name", "name">>,
      <<"Parent", "parent">>,
      <<"PropertyAccessor", "property_accessor">>,
      <<"Session", "session">>,
      <<"ShowAsOutlookAB", "show_as_outlook_ab">>,
      <<"ShowItemCount", "show_item_count">>,
      <<"Store", "store">>,
      <<"StoreID", "store_id">>,
      <<"UnReadItemCount", "unread_item_count">>,
      <<"UserDefinedProperties", "user_defined_properties">>,
      <<"Views", "views">>,
      <<"WebViewOn", "web_view_on">>,
      <<"WebViewURL", "web_view_url">>>>

\* the properties of the COM folder Inbox's docstring lists, lines 937-1019
InboxComProperties == {e[1] : e \in Range(InboxAllAttrs)} \cup {"CustomViewsOnly"}

\* one iteration of the loop of Inbox.__init__, lines 1081-1087: the read
\* and the assignment are both inside the try, and the handler passes
Inbox_loop_body(st, self, inbox, entry) ==
    LET com_name == entry[1]
        new_name == entry[2]
        r == getattr_(st.heap[inbox], com_name)
    IN  IF r.kind = "hang"
        THEN [st EXCEPT !.outcome = "hung",
                        !.log = Append(@, ReadEvent(com_name, "hang"))]
        ELSE IF r.kind # "ok"
        THEN [st EXCEPT !.log = Append(@, ReadEvent(com_name, r.kind))]
        ELSE
        LET value == r.val
            w == setattr_(st.heap[self], new_name, value)
        IN  [st EXCEPT
               !.heap[self] = w.obj,
               !.log = @ \o <<ReadEvent(com_name, "ok"),
                               WriteEvent(new_name, value, w.kind)>>]

RECURSIVE Inbox_for_loop(_, _, _, _)
\* for com_name, new_name in all_attrs.items()
Inbox_for_loop(st, self, inbox, i) ==
    IF i > Len(st.attrs_map) \/ st.outcome # "running" THEN st
    ELSE Inbox_for_loop(Inbox_loop_body(st, self, inbox, st.attrs_map[i]),
                        self, inbox, i + 1)

\* Inbox.__init__ from the declarations on: self.<name> = None for every
\* declared attribute, then the loop over all_attrs, then return
Inbox_init(h, self, inbox) ==
    LET st == Inbox_for_loop(
                  StartState([h EXCEPT ![self] = declare(h[self], InboxDeclared)],
                             InboxAllAttrs),
                  self, inbox, 1)
    IN  IF st.outcome = "running" THEN [st EXCEPT !.outcome = "returned"] ELSE st

InitInbox ==
    /\ heap \in ComAndSelf(InboxComProperties, InboxDeclared)
    /\ last = NoCall
    /\ calls = 0
    /\ NoAdapter
    /\ NoNav
    /\ NoFolder

\* Inbox()
ConstructInbox ==
    /\ last = NoCall
    /\ LET res == Inbox_init(heap, "dst", "src")
       IN  /\ heap' = res.heap
           /\ last' = [n |-> calls + 1, repeat |-> FALSE,
                       to |-> "dst", from |-> "src", map |-> InboxAllAttrs,
                       before |-> heap, res |-> res]
    /\ calls' = calls + 1
    /\ UNCHANGED <<adapterVars, folderVars, navVars>>

NextInbox == ConstructInbox

SpecInbox == InitInbox /\ [][NextInbox]_vars

(***************************************************************************)
(* The methods of an adapter                                               *)
(***************************************************************************)
\* adapter.m(*args), the COM object answering ret
CallMethod(m, args, ret) ==
    /\ m \in DOMAIN MethodTable[cls]
    /\ args \in MethodArgs(cls, m)
    /\ LET r == method_call(cls, m, args, ret) IN
         mcall' = [method |-> m, args |-> args, ret |-> ret,
                   invoked |-> r.invoked, res |-> r.res]
    /\ UNCHANGED <<cls, com, own, result, writes, extractVars, navVars, folderVars>>

NextMethods ==
    \E m \in DOMAIN MethodTable[cls] :
        \E args \in MethodArgs(cls, m), ret \in ComReturns : CallMethod(m, args, ret)

SpecMethods == InitAdapter /\ [][NextMethods]_vars

(***************************************************************************)
(* A Folder as a list of the items of its COM folder                       *)
(***************************************************************************)
\* a Folder has been constructed over a COM folder holding some items
InitFolder ==
    /\ items \in ItemSeqs
    /\ folder = Folder_init(items)
    /\ seen = NotSeen
    /\ comfolders = <<>>
    /\ wrappers = {}
    /\ NoExtract
    /\ NoAdapter
    /\ NoNav

\* another Folder is constructed over the same COM folder
Construct ==
    /\ folder # Folder_init(items)
    /\ folder' = Folder_init(items)
    /\ seen' = NotSeen
    /\ UNCHANGED <<items, extractVars, navVars, adapterVars, storeVars>>

\* the host adds item k to the COM folder at position pos
ComAdd(k, pos) ==
    /\ Len(items) < MaxItems
    /\ k \notin Range(items)
    /\ pos \in 1..(Len(items) + 1)
    /\ items' = SubSeq(items, 1, pos - 1) \o <<k>> \o SubSeq(items, pos, Len(items))
    /\ seen' = NotSeen
    /\ UNCHANGED <<folder, extractVars, navVars, adapterVars, storeVars>>

\* the host removes the item at position pos of the COM folder
ComRemove(pos) ==
    /\ pos \in 1..Len(items)
    /\ items' = SubSeq(items, 1, pos - 1) \o SubSeq(items, pos + 1, Len(items))
    /\ seen' = NotSeen
    /\ UNCHANGED <<folder, extractVars, navVars, adapterVars, storeVars>>

\* the host reorders the COM folder: the items at pos and pos + 1 change
\* places
ComReorder(pos) ==
    /\ pos \in 1..(Len(items) - 1)
    /\ items' = [items EXCEPT ![pos] = items[pos + 1], ![pos + 1] = items[pos]]
    /\ seen' = NotSeen
    /\ UNCHANGED <<folder, extractVars, navVars, adapterVars, storeVars>>

\* len(folder)
ObserveLen ==
    /\ seen' = [op |-> "len", index |-> 0, res |-> Folder_len(folder)]
    /\ UNCHANGED <<items, folder, extractVars, navVars, adapterVars, storeVars>>

\* folder[i]
ObserveGetItem(i) ==
    /\ seen' = [op |-> "getitem", index |-> i, res |-> Folder_getitem(folder, i)]
    /\ UNCHANGED <<items, folder, extractVars, navVars, adapterVars, storeVars>>

\* list(iter(folder))
ObserveIter ==
    /\ seen' = [op |-> "iter", index |-> 0, res |-> Folder_iter(folder)]
    /\ UNCHANGED <<items, folder, extractVars, navVars, adapterVars, storeVars>>

\* folder.items()
ObserveItems ==
    /\ seen' = [op |-> "items", index |-> 0, res |-> Folder_items(folder)]
    /\ UNCHANGED <<items, folder, extractVars, navVars, adapterVars, storeVars>>

NextFolder ==
    \/ Construct
    \/ \E k \in ItemIds, pos \in 1..(MaxItems + 1) : ComAdd(k, pos)
    \/ \E pos \in 1..MaxItems : ComRemove(pos)
    \/ \E pos \in 1..MaxItems : ComReorder(pos)
    \/ ObserveLen
    \/ \E i \in (0 - MaxItems)..MaxItems : ObserveGetItem(i)
    \/ ObserveIter
    \/ ObserveItems

SpecFolder == InitFolder /\ [][NextFolder]_vars

(***************************************************************************)
(* The list operations of a Folder                                         *)
(***************************************************************************)
\* a list operation named op with outcome r; the Folder's list is kept
\* within MaxItems + 1 items
ListOp(op, i, r) ==
    /\ Len(r.folder.data) <= MaxItems + 1
    /\ folder' = r.folder
    /\ seen' = [op |-> op, index |-> i, res |-> r.res]
    /\ UNCHANGED <<items, extractVars, navVars, adapterVars, storeVars>>

SetItem(i, v) == ListOp("setitem", i, Folder_setitem(folder, i, v))
DelItem(i) == ListOp("delitem", i, Folder_delitem(folder, i))
AppendItem(v) == ListOp("append", 0, Folder_append(folder, v))
Extend(other) == ListOp("extend", 0, Folder_extend(folder, other))
IAdd(other) == ListOp("iadd", 0, Folder_iadd(folder, other))
Insert(i, v) == ListOp("insert", i, Folder_insert(folder, i, v))
Pop == ListOp("pop", 0, Folder_pop(folder))
Remove(v) == ListOp("remove", 0, Folder_remove(folder, v))
Clear == ListOp("clear", 0, Folder_clear(folder))
Reverse == ListOp("reverse", 0, Folder_reverse(folder))
Sort == ListOp("sort", 0, Folder_sort(folder))
IMul(n) == ListOp("imul", n, Folder_imul(folder, n))
ItemsAppend(v) == ListOp("items_append", 0, Folder_items_append(folder, v))

NextList ==
    \/ \E i \in 0..MaxItems, v \in ItemIds : SetItem(i, v)
    \/ \E i \in 0..MaxItems : DelItem(i)
    \/ \E v \in ItemIds : AppendItem(v)
    \/ \E other \in Others : Extend(other)
    \/ \E other \in Others : IAdd(other)
    \/ \E i \in 0..MaxItems, v \in ItemIds : Insert(i, v)
    \/ Pop
    \/ \E v \in ItemIds : Remove(v)
    \/ Clear
    \/ Reverse
    \/ Sort
    \/ \E n \in 0..2 : IMul(n)
    \/ \E v \in ItemIds : ItemsAppend(v)

SpecList == InitFolder /\ [][NextList]_vars

(***************************************************************************)
(* Folders and the accounts whose stores hold them                         *)
(***************************************************************************)
\* the accounts, and the root COM folder of each account's store
Accounts == {"acct1", "acct2"}
RootOf == [a \in Accounts |-> IF a = "acct1" THEN 1 ELSE 2]
Roots == {RootOf[a] : a \in Accounts}

\* the account whose store holds COM folder k: that of the root above it;
\* cf maps each COM folder to its parent folder
RECURSIVE StoreOf(_, _)
StoreOf(cf, k) ==
    IF k \in Roots THEN CHOOSE a \in Accounts : RootOf[a] = k
    ELSE StoreOf(cf, cf[k])

RECURSIVE IsBelow(_, _, _)
IsBelow(cf, k, top) ==
    IF k = top THEN TRUE
    ELSE IF k \in Roots THEN FALSE
    ELSE IsBelow(cf, cf[k], top)

\* Folder(account, folder)
FolderOver(account, k) == [account |-> account, folder |-> k]

\* folder.store
Folder_store(w) == Ok(Ref(w.account))

\* folder.folders: one Folder per sub-folder, each given self.account
Folder_folders(cf, w) ==
    {FolderOver(w.account, k) : k \in {j \in DOMAIN cf : j \notin Roots /\ cf[j] = w.folder}}

\* folder.copy_to(destination_folder): the Folder returned for the COM
\* folder new that CopyTo created under the destination
Folder_copy_to(w, d, new_folder) == FolderOver(w.account, new_folder)

\* each account's store holds its root folder, and the program holds the
\* Folder of each root with its account
InitStore ==
    /\ comfolders = [k \in Roots |-> 0]
    /\ wrappers = {FolderOver(a, RootOf[a]) : a \in Accounts}
    /\ items = <<>>
    /\ folder = Folder_init(<<>>)
    /\ seen = NotSeen
    /\ NoExtract
    /\ NoAdapter
    /\ NoNav

\* subs = w.folders
ListFolders(w) ==
    /\ w \in wrappers
    /\ wrappers' = wrappers \cup Folder_folders(comfolders, w)
    /\ wrappers' # wrappers
    /\ seen' = NotSeen
    /\ UNCHANGED <<comfolders, items, folder, extractVars, navVars, adapterVars>>

\* copy = w.copy_to(d): COM creates a folder under d's folder
CopyTo(w, d) ==
    /\ w \in wrappers /\ d \in wrappers
    /\ Cardinality(DOMAIN comfolders) < MaxFolders
    /\ LET new_folder == Cardinality(DOMAIN comfolders) + 1 IN
         /\ comfolders' = [k \in DOMAIN comfolders \cup {new_folder} |->
                             IF k = new_folder THEN d.folder ELSE comfolders[k]]
         /\ wrappers' = wrappers \cup {Folder_copy_to(w, d, new_folder)}
    /\ seen' = NotSeen
    /\ UNCHANGED <<items, folder, extractVars, navVars, adapterVars>>

\* w.move_to(d): COM moves w's folder under d's folder; nothing is returned
\* and w itself is left as it was
MoveTo(w, d) ==
    /\ w \in wrappers /\ d \in wrappers
    /\ w.folder \notin Roots
    /\ ~IsBelow(comfolders, d.folder, w.folder)
    /\ comfolders[w.folder] # d.folder
    /\ comfolders' = [comfolders EXCEPT ![w.folder] = d.folder]
    /\ seen' = NotSeen
    /\ UNCHANGED <<wrappers, items, folder, extractVars, navVars, adapterVars>>

\* w.store
ReadStore(w) ==
    /\ w \in wrappers
    /\ seen' = [op |-> "store", index |-> w.folder, res |-> Folder_store(w)]
    /\ UNCHANGED <<comfolders, wrappers, items, folder, extractVars, navVars, adapterVars>>

NextStore ==
    \/ \E w \in wrappers : ListFolders(w)
    \/ \E w, d \in wrappers : CopyTo(w, d)
    \/ \E w, d \in wrappers : MoveTo(w, d)
    \/ \E w \in wrappers : ReadStore(w)

SpecStore == InitStore /\ [][NextStore]_vars

(***************************************************************************)
(* Adapter objects and their parents                                       *)
(***************************************************************************)
\* the program holds two Application objects and, built over each, a
\* NameSpace, an Account and a Folder
InitNav ==
    /\ objects = <<AdapterObject("Application", 0, 1, 1),
                   AdapterObject("Application", 0, 2, 2),
                   AdapterObject("NameSpace", 1, 1, 1),
                   AdapterObject("NameSpace", 2, 2, 2),
                   AdapterObject("Account", 3, 1, 1),
                   AdapterObject("Account", 4, 2, 2),
                   AdapterObject("Folder", 5, 1, 1),
                   AdapterObject("Folder", 6, 2, 2)>>
    /\ nav = NoNavigation
    /\ NoExtract
    /\ NoAdapter
    /\ NoFolder

IdsOf(c) == {x \in DOMAIN objects : objects[x].cls = c}

\* the new objects are added to those the program holds
Made(op, on, coll, new_objects, res) ==
    /\ Len(objects) + Len(new_objects) <= MaxObjects
    /\ objects' = objects \o new_objects
    /\ nav' = [op |-> op, on |-> on, coll |-> coll,
               made |-> [i \in 1..Len(new_objects) |-> Len(objects) + i],
               res |-> res]
    /\ UNCHANGED <<extractVars, adapterVars, folderVars>>

\* app.get_namespace('MAPI'), the COM call returning namespace k
GetNamespace(app, k) ==
    /\ app \in IdsOf("Application")
    /\ LET r == method_call("Application", "get_namespace", <<PyInt(0)>>, Ok(PyInt(k))).res
       IN  Made("get_namespace", app, <<>>,
                IF r.kind = "ok"
                THEN <<AdapterObject("NameSpace", app, k, app)>> ELSE <<>>,
                r)

\* NameSpace(app, 'MAPI', k)
NewNameSpace(app, k) ==
    /\ app \in IdsOf("Application")
    /\ Made("NameSpace", app, <<>>, <<AdapterObject("NameSpace", app, k, app)>>, Ok(NoValue))

\* ns.accounts, the COM collection Accounts holding coll
ReadAccounts(ns, coll) ==
    /\ ns \in IdsOf("NameSpace")
    /\ Made("accounts", ns, coll, NameSpace_accounts(objects, ns, coll), Ok(NoValue))

\* Folder(account, k)
NewFolder(account, k) ==
    /\ account \in IdsOf("Account")
    /\ Made("Folder", account, <<>>,
            <<AdapterObject("Folder", account, k, objects[account].origin)>>, Ok(NoValue))

\* f.folders, the COM collection Folders holding coll
ReadFolders(f, coll) ==
    /\ f \in IdsOf("Folder")
    /\ Made("folders", f, coll, folders_of(objects, f, coll), Ok(NoValue))

\* f.copy_to(d), COM returning the new folder k
CopyFolder(f, d, k) ==
    /\ f \in IdsOf("Folder") /\ d \in IdsOf("Folder")
    /\ Made("copy_to", f, <<>>, <<copy_of(objects, f, d, k)>>, Ok(NoValue))

\* MailItem(f, k)
NewMailItem(f, k) ==
    /\ f \in IdsOf("Folder")
    /\ Made("MailItem", f, <<>>,
            <<AdapterObject("MailItem", f, k, objects[f].origin)>>, Ok(NoValue))

NextNav ==
    \/ \E app \in DOMAIN objects, k \in ComIds : GetNamespace(app, k)
    \/ \E app \in DOMAIN objects, k \in ComIds : NewNameSpace(app, k)
    \/ \E ns \in DOMAIN objects, coll \in ComCollections : ReadAccounts(ns, coll)
    \/ \E account \in DOMAIN objects, k \in ComIds : NewFolder(account, k)
    \/ \E f \in DOMAIN objects, coll \in ComCollections : ReadFolders(f, coll)
    \/ \E f, d \in DOMAIN objects, k \in ComIds : CopyFolder(f, d, k)
    \/ \E f \in DOMAIN objects, k \in ComIds : NewMailItem(f, k)

SpecNav == InitNav /\ [][NextNav]_vars

(***************************************************************************)
(* Properties of extract_attributes                                        *)
(***************************************************************************)
Called == last.n > 0
Returned == Called /\ last.res.outcome = "returned"
Entries == 1..Len(last.map)
FromOf(i) == last.map[i][1]
ToOf(i) == last.map[i][2]
SrcBefore == last.before[last.from].attrs
DstBefore == last.before[last.to].attrs
DstAfter == heap[last.to].attrs
ReadSucceeds(cell) == cell \in Vals \cup {None}
NoDupDest(m) == \A i, j \in 1..Len(m) : m[i][2] = m[j][2] => i = j
LastFor(i) == \A j \in Entries : ToOf(j) = ToOf(i) => j <= i
Reorderings(m) == {p \in AttrMaps : Len(p) = Len(m) /\ Range(p) = Range(m)}

\* C1: with no duplicate destination names and a source other than the
\* destination, after the call every destination attribute holds the value
\* of its own source attribute when that is readable and None when it is
\* not, whatever happens to the other entries
C1_ExactCopyOrNone ==
    (Called /\ NoDupDest(last.map) /\ last.from # last.to) =>
        /\ Returned
        /\ \A i \in Entries :
             /\ ReadSucceeds(SrcBefore[FromOf(i)]) => DstAfter[ToOf(i)] = SrcBefore[FromOf(i)]
             /\ ~ReadSucceeds(SrcBefore[FromOf(i)]) => DstAfter[ToOf(i)] = None

C1_Witness ==
    /\ Returned /\ Len(last.map) = 2 /\ NoDupDest(last.map)
    /\ SrcBefore[FromOf(1)] = RAISES /\ SrcBefore[FromOf(2)] = "v2"
    /\ DstAfter[ToOf(1)] = None /\ DstAfter[ToOf(2)] = "v2"
    /\ DstBefore[ToOf(1)] = "v1"

\* C2 as stated: whatever source reads fail, the call returns normally and
\* the destination attribute of every entry whose read failed is None
C2_Original ==
    Called =>
        /\ Returned
        /\ \A i \in Entries :
             SrcBefore[FromOf(i)] \in FailingCells => DstAfter[ToOf(i)] = None

\* C2 amended: whatever source reads fail, the call returns normally and
\* the destination attribute of every entry whose read failed is None,
\* unless a later entry of the map writes the same destination name
C2_ReadFailuresContained ==
    Called =>
        /\ Returned
        /\ last.res.raisedBy = "none"
        /\ \A i \in Entries :
             (SrcBefore[FromOf(i)] \in FailingCells /\ LastFor(i))
                => DstAfter[ToOf(i)] = None

C2_Witness ==
    /\ Returned /\ Len(last.map) = 2
    /\ SrcBefore[FromOf(1)] = UNDEF /\ SrcBefore[FromOf(2)] = RAISES
    /\ DstBefore[ToOf(1)] = "v1" /\ DstBefore[ToOf(2)] = "v2"
    /\ ToOf(1) # ToOf(2)
    /\ DstAfter[ToOf(1)] = None /\ DstAfter[ToOf(2)] = None

\* C3: whenever the call ends it has returned, not raised, and every
\* destination name of the map is defined on the destination
C3_Totality ==
    (Called /\ last.res.outcome # "hung") =>
        /\ last.res.outcome = "returned"
        /\ \A i \in Entries : DstAfter[ToOf(i)] # UNDEF

C3_Witness ==
    /\ Returned /\ Len(last.map) = 2 /\ ToOf(1) # ToOf(2)
    /\ DstBefore[ToOf(1)] = UNDEF /\ DstBefore[ToOf(2)] = UNDEF
    /\ SrcBefore[FromOf(1)] = "v1" /\ SrcBefore[FromOf(2)] = UNDEF
    /\ DstAfter[ToOf(1)] = "v1" /\ DstAfter[ToOf(2)] = None

\* C4: a second call with the same map, the source being as it was at the
\* first call, leaves the destination as the first call left it
C4_Idempotent ==
    (Called /\ last.repeat) => heap[last.to] = last.before[last.to]

C4_Witness ==
    /\ Returned /\ last.repeat /\ Len(last.map) = 2
    /\ heap[last.from] = last.before[last.from]
    /\ SrcBefore[FromOf(1)] = "v1" /\ SrcBefore[FromOf(2)] = RAISES
    /\ ToOf(1) = "b" /\ ToOf(2) = "a"
    /\ DstAfter["a"] = None /\ DstAfter["b"] = "v1"

\* C5: with no duplicate destination names, every order of the map's
\* entries gives the same final destination
C5_OrderIndependent ==
    (Called /\ NoDupDest(last.map)) =>
        \A p \in Reorderings(last.map) :
            extract_attributes(last.before, last.to, last.from, p).heap[last.to]
                = heap[last.to]

C5_Witness ==
    /\ Returned /\ Len(last.map) = 2 /\ NoDupDest(last.map)
    /\ Cardinality(Reorderings(last.map)) = 2
    /\ SrcBefore[FromOf(1)] = "v1" /\ SrcBefore[FromOf(2)] = UNDEF
    /\ DstBefore[ToOf(1)] = "v2" /\ DstBefore[ToOf(2)] = "v2"
    /\ DstAfter # DstBefore

\* C6: with an empty map the call reads nothing and writes nothing, and
\* the destination is as it was before the call
C6_EmptyMap ==
    (Called /\ last.map = <<>>) =>
        /\ Returned
        /\ last.res.log = <<>>
        /\ heap[last.to] = last.before[last.to]

C6_Witness ==
    /\ Returned /\ last.map = <<>>
    /\ DstAfter["a"] = "v1" /\ DstAfter["b"] = UNDEF /\ DstAfter["c"] = None
    /\ SrcBefore["a"] = "v2"

\* C7: a destination name that several entries map to ends up holding the
\* result of the last of them in map order, and the call does not raise
C7_LastWriteWins ==
    Called =>
        /\ Returned
        /\ \A i \in Entries :
             LastFor(i) =>
                DstAfter[ToOf(i)] =
                    IF ReadSucceeds(SrcBefore[FromOf(i)])
                    THEN SrcBefore[FromOf(i)] ELSE None

C7_Witness ==
    /\ Returned /\ Len(last.map) = 2 /\ ToOf(1) = ToOf(2)
    /\ SrcBefore[FromOf(1)] = "v1" /\ SrcBefore[FromOf(2)] = "v2"
    /\ DstAfter[ToOf(2)] = "v2"

\* C8: the call changes only destination attributes named by the values
\* of the map; the other destination attributes, the source and the map
\* are as before
C8_Frame ==
    Called =>
        /\ \A n \in Names :
             n \notin {ToOf(i) : i \in Entries} => DstAfter[n] = DstBefore[n]
        /\ heap[last.to].rejects = last.before[last.to].rejects
        /\ heap[last.from] = last.before[last.from]
        /\ last.res.attrs_map = last.map

C8_Witness ==
    /\ Returned /\ Len(last.map) = 1 /\ FromOf(1) = "a" /\ ToOf(1) = "c"
    /\ SrcBefore["a"] = "v1" /\ SrcBefore["b"] = "v2"
    /\ DstBefore["a"] = "v2" /\ DstBefore["b"] = None /\ DstBefore["c"] = "v2"
    /\ DstAfter["a"] = "v2" /\ DstAfter["b"] = None /\ DstAfter["c"] = "v1"

\* C17: the call is a single pass in map order with no retry: for a map of
\* n entries it makes n reads and n writes, read i then write i then read
\* i+1, a failed read is not repeated, and it returns after the n-th write
C17_SinglePass ==
    Called =>
        LET log == last.res.log
            n == Len(last.map)
        IN  /\ Returned
            /\ Len(log) = 2 * n
            /\ \A i \in 1..n :
                 /\ log[2 * i - 1].op = "read"
                 /\ log[2 * i - 1].name = FromOf(i)
                 /\ log[2 * i].op = "write"
                 /\ log[2 * i].name = ToOf(i)
                 /\ log[2 * i].result = "ok"

\* a call with two entries whose first read failed
C17_Witness ==
    /\ Called
    /\ Len(last.map) = 2
    /\ Len(last.res.log) = 4
    /\ last.res.log[1].result # "ok"
    /\ last.res.log[3].op = "read"

\* entry i's read hangs, entry i's write is rejected
Hangs(i) == SrcBefore[FromOf(i)] = HANGS
Rejected(i) == ToOf(i) \in last.before[last.to].rejects

\* the value entry i's read gives: the attribute's value, None when the
\* read fails
ValueRead(i) ==
    IF ReadSucceeds(SrcBefore[FromOf(i)]) THEN SrcBefore[FromOf(i)] ELSE None

\* the destination's attributes once the entries before k are copied
AfterEntriesBefore(k) ==
    [x \in Names |->
        IF \E j \in 1..(k - 1) : ToOf(j) = x
        THEN ValueRead(CHOOSE j \in 1..(k - 1) :
                          /\ ToOf(j) = x
                          /\ \A h \in 1..(k - 1) : ToOf(h) = x => h <= j)
        ELSE DstBefore[x]]

\* the reads and writes of the entries before k
LogOfEntriesBefore(k) ==
    \A j \in 1..(k - 1) :
        /\ last.res.log[2 * j - 1].op = "read"
        /\ last.res.log[2 * j - 1].name = FromOf(j)
        /\ last.res.log[2 * j] = WriteEvent(ToOf(j), ValueRead(j), "ok")

\* entry k is the first whose read hangs, no write before it was rejected
FirstHang(k) ==
    /\ Called
    /\ k \in Entries
    /\ Hangs(k)
    /\ \A j \in 1..(k - 1) : ~Hangs(j) /\ ~Rejected(j)

\* entry k is the first whose write is rejected, no read up to it hangs
FirstRejected(k) ==
    /\ Called
    /\ k \in Entries
    /\ Rejected(k)
    /\ \A j \in 1..k : ~Hangs(j)
    /\ \A j \in 1..(k - 1) : ~Rejected(j)

\* C18 as stated: when the read of one source attribute never returns, the
\* call still terminates, with that entry's destination attribute None and
\* the other entries processed
C18_Original ==
    \A k \in Entries :
        (FirstHang(k) /\ \A j \in Entries : ~Rejected(j)) =>
            /\ Returned
            /\ LastFor(k) => DstAfter[ToOf(k)] = None
            /\ Len(last.res.log) = 2 * Len(last.map)

\* C18, amended: a hang is not contained: when the read of entry k never
\* returns, the call never returns; the entries before k have been copied,
\* entry k's destination attribute is not written and no later entry is
\* read or written
C18_HangNotContained ==
    \A k \in Entries :
        FirstHang(k) =>
            /\ last.res.outcome = "hung"
            /\ Len(last.res.log) = 2 * k - 1
            /\ LogOfEntriesBefore(k)
            /\ last.res.log[2 * k - 1] = ReadEvent(FromOf(k), "hang")
            /\ DstAfter = AfterEntriesBefore(k)

\* the first entry was copied, the read of the second entry hangs
C18_Witness ==
    /\ FirstHang(2)
    /\ last.res.outcome = "hung"
    /\ ToOf(1) # ToOf(2)
    /\ DstAfter[ToOf(1)] = "v1"
    /\ DstBefore[ToOf(1)] # "v1"
    /\ DstAfter[ToOf(2)] = DstBefore[ToOf(2)]

\* C19: when the destination rejects the assignment of entry k, the error
\* propagates out of the call; the entries before k have been written, and
\* the entries after k are neither read nor written
C19_WriteFailurePropagates ==
    \A k \in Entries :
        FirstRejected(k) =>
            /\ last.res.outcome = "raised"
            /\ last.res.raisedBy = "setattr"
            /\ Len(last.res.log) = 2 * k
            /\ LogOfEntriesBefore(k)
            /\ last.res.log[2 * k - 1].op = "read"
            /\ last.res.log[2 * k - 1].name = FromOf(k)
            /\ last.res.log[2 * k].op = "write"
            /\ last.res.log[2 * k].name = ToOf(k)
            /\ last.res.log[2 * k].result # "ok"
            /\ DstAfter = AfterEntriesBefore(k)

\* the first entry was written, the second entry's write was rejected
C19_Witness ==
    /\ FirstRejected(2)
    /\ last.res.outcome = "raised"
    /\ DstAfter[ToOf(1)] = "v1"
    /\ DstBefore[ToOf(1)] # "v1"

\* the heap before the call, with None in the source's attribute a
WithNone(a) == [last.before EXCEPT ![last.from].attrs[a] = None]

\* C20: a failed read cannot be told from an attribute holding None: for a
\* source whose attribute a fails to be read and the source that differs
\* from it only in holding None in a, the call leaves the destination in
\* the same final state and returns normally for both
C20_FailureLooksLikeNone ==
    Called =>
        \A a \in FromNames :
            SrcBefore[a] \in FailingCells =>
                LET twin == extract_attributes(WithNone(a), last.to, last.from, last.map)
                IN  /\ twin.heap[last.to] = heap[last.to]
                    /\ twin.outcome = "returned"
                    /\ last.res.outcome = "returned"

\* attribute a raises when read and was copied as None over a value
C20_Witness ==
    /\ Called
    /\ SrcBefore["a"] = RAISES
    /\ \E i \in Entries :
         /\ FromOf(i) = "a"
         /\ LastFor(i)
         /\ DstBefore[ToOf(i)] \in Vals
         /\ DstAfter[ToOf(i)] = None

\* what a caller can observe of a call's result: the reads and writes in
\* order, the destination's final state and how the call ended
Observed(res) ==
    [log |-> res.log, destination |-> res.heap[last.to], outcome |-> res.outcome]

\* C28: on every destination, source and map, with failing or hanging reads
\* and a rejected write, the extract_attributes of main.py and that of
\* utils.py make the same reads and writes in the same order, leave the
\* destination in the same state and end the same way; the call made is
\* the result of either
C28_SameObservations ==
    Called =>
        /\ Observed(main_extract_attributes(last.before, last.to, last.from, last.map))
             = Observed(last.res)
        /\ Observed(extract_attributes(last.before, last.to, last.from, last.map))
             = Observed(last.res)

\* a call whose first read failed and whose second write was rejected
C28_Witness ==
    /\ FirstRejected(2)
    /\ SrcBefore[FromOf(1)] \in FailingCells
    /\ last.res.outcome = "raised"
    /\ Len(last.res.log) = 4
    /\ DstAfter[ToOf(1)] = None
    /\ DstBefore[ToOf(1)] # None

\* the COM property each declared attribute of Inbox stands for: the pairs
\* of the attribute map, and custom_views_only for CustomViewsOnly
InboxCorresponding == Range(InboxAllAttrs) \cup {<<"CustomViewsOnly", "custom_views_only">>}

\* C26: after Inbox() every declared attribute holds the value of its COM
\* property when the property is readable and None when reading it fails,
\* and the construction returns, whichever reads fail
C26_InboxAttributesDefined ==
    Called =>
        /\ Returned
        /\ {e[2] : e \in InboxCorresponding} = InboxDeclared
        /\ \A e \in InboxCorresponding :
              DstAfter[e[2]] = IF ReadSucceeds(SrcBefore[e[1]])
                               THEN SrcBefore[e[1]] ELSE None

\* C27: after Application() each of the fifteen mapped attributes holds
\* the value the COM property had at construction when it was readable and
\* None when its read failed, whichever reads fail, and keeps it when the
\* COM property changes later
C27_EagerTotal ==
    Called =>
        /\ Returned
        /\ Len(last.map) = Cardinality(ApplicationDeclared)
        /\ {ToOf(i) : i \in Entries} = ApplicationDeclared
        /\ \A i \in Entries : DstAfter[ToOf(i)] = ValueRead(i)

\* Version failed to be read and Name changed after the construction
C27_Witness ==
    /\ Called
    /\ SrcBefore["Version"] \in FailingCells
    /\ DstAfter["version"] = None
    /\ SrcBefore["Name"] = "v1"
    /\ heap["src"].attrs["Name"] = "v2"
    /\ DstAfter["name"] = "v1"

(***************************************************************************)
(* Properties of the adapters' properties                                  *)
(***************************************************************************)
\* equal, or an enumeration member and the integer it stands for
SameUpToEnum(x, y) ==
    \/ x = y
    \/ /\ {x.type, y.type} = {"int", "enum"}
       /\ x.value = y.value

\* C9: a getter that returns a COM value or an enumeration member returns
\* the current value of the COM member its property is named after, as it
\* is or wrapped in the enumeration (an integer the enumeration lacks is
\* C12's case, a COM member whose read raises is C16's)
C9_GettersReadCom ==
    (/\ result.op = "get"
     /\ GetterOf(cls, result.prop).kind \in {"attr", "enum"}
     /\ com[ComNameOf(cls, result.prop)] # Failing) =>
        LET g == GetterOf(cls, result.prop)
            cur == com[ComNameOf(cls, result.prop)]
        IN  (g.kind = "enum" /\ g.enum \in DOMAIN Enums
                /\ cur.value \notin Enums[g.enum])
            \/ (result.res.kind = "ok" /\ SameUpToEnum(result.res.val, cur))

\* C10: after adapter.p = v with v a valid value, the COM member p is
\* named after holds v, and a read of adapter.p that follows returns v
\* (an enumeration member and its integer counting as the same value;
\* body_format, whose enumeration _enums.py lacks, is left aside)
C10_SetThenGet ==
    LET p == result.prop
        v == result.arg
        s == SetterOf(cls, p)
        valid == \/ s.enum = ""
                 \/ s.enum \in DOMAIN Enums /\ v.value \in Enums[s.enum]
    IN  /\ (result.op = "set" /\ valid) =>
              /\ result.res.kind = "ok"
              /\ SameUpToEnum(com[ComNameOf(cls, p)], v)
        /\ (result.op = "get" /\ v # Unset /\ valid) =>
              /\ result.res.kind = "ok"
              /\ SameUpToEnum(result.res.val, v)

(***************************************************************************)
(* Properties of the adapter methods                                       *)
(***************************************************************************)
MethodCalled == mcall.method # ""

\* C11: every adapter method that forwards to the COM object invokes exactly
\* one COM method, the one its snake_case name stands for in PascalCase,
\* with the caller's arguments unchanged and in the same order, and returns
\* what that invocation returns; get_folder_from_id invokes GetFolderFromID
\* and get_item_from_id invokes GetItemFromID
C11_MethodsForward ==
    (MethodCalled /\ MethodOf(cls, mcall.method).kind = "forward")
        => /\ mcall.invoked =
                <<Invocation(MethodComNameTable[cls][mcall.method], mcall.args)>>
           /\ mcall.res = mcall.ret

(***************************************************************************)
(* Properties of the enumeration-typed getters                             *)
(***************************************************************************)
\* the values of an enumeration: those _enums.py lists and, for the body
\* format that _enums.py leaves out, Outlook's four body formats
EnumValues(e) == IF e \in DOMAIN Enums THEN Enums[e] ELSE 0..3

EnumGetterRead ==
    /\ result.op = "get"
    /\ GetterOf(cls, result.prop).kind = "enum"
    /\ com[GetterOf(cls, result.prop).com].type = "int"

\* C12: an enumeration-typed getter returns the member whose value is the
\* COM integer when that integer is a value of the enumeration, and fails
\* when it is not: it never returns the integer or an unknown member
C12_EnumGetters ==
    EnumGetterRead =>
        LET g == GetterOf(cls, result.prop)
            v == com[g.com].value
        IN  IF v \in EnumValues(g.enum)
            THEN result.res = Ok(Member(g.enum, v))
            ELSE result.res.kind # "ok"

(***************************************************************************)
(* Properties of the Folder list                                           *)
(***************************************************************************)
\* C13: what len, indexing, iteration and items() show of a Folder is the
\* COM folder's Items sequence as the constructor fetched it, whatever the
\* COM folder's Items have become since
C13_Snapshot ==
    LET was == folder.fetched
        at(i) == IF i < 0 THEN i + Len(was) ELSE i
    IN
    /\ seen.op = "len" => seen.res = Ok(PyInt(Len(was)))
    /\ seen.op = "getitem" =>
         seen.res = IF at(seen.index) >= 0 /\ at(seen.index) < Len(was)
                    THEN Ok(Item(was[at(seen.index) + 1]))
                    ELSE Raise("IndexError")
    /\ seen.op \in {"iter", "items"} => seen.res = Ok(PyList(was))

\* items() is read after the COM folder lost an item and gained another
C13_Witness ==
    /\ seen.op = "items"
    /\ Len(folder.fetched) > 0
    /\ Len(items) > 0
    /\ items # folder.fetched
    /\ \E k \in Range(items) : k \notin Range(folder.fetched)
    /\ \E k \in Range(folder.fetched) : k \notin Range(items)

(***************************************************************************)
(* Properties of Application.get_namespace                                 *)
(***************************************************************************)
\* C14: when the COM call GetNamespace(type_) succeeds,
\* Application.get_namespace(type_) does not fail: it returns a NameSpace
\* that wraps the COM call's result
C14_GetNamespace ==
    (/\ MethodCalled
     /\ cls = "Application"
     /\ mcall.method = "get_namespace"
     /\ mcall.ret.kind = "ok")
        => /\ mcall.invoked = <<Invocation("GetNamespace", mcall.args)>>
           /\ mcall.res.kind = "ok"
           /\ mcall.res.val.type = "wrapper"
           /\ mcall.res.val.enum = "NameSpace"
           /\ mcall.res.val.value = mcall.ret.val.value

(***************************************************************************)
(* Properties of Folder.store                                              *)
(***************************************************************************)
\* C15: the store of a Folder obtained through folders, copy_to and move_to
\* is the account whose store holds the folder at that moment, also after a
\* copy or a move into a folder of another account
C15_StoreContains ==
    seen.op = "store" =>
        seen.res = Ok(Ref(StoreOf(comfolders, seen.index)))

(***************************************************************************)
(* Failing COM reads behind the adapter properties                         *)
(***************************************************************************)
\* a property was read whose COM member raises when read
FailingRead ==
    /\ result.op = "get"
    /\ GetterOf(cls, result.prop).kind \notin {"nav", "raise"}
    /\ com[ComNameOf(cls, result.prop)] = Failing

\* C16 as stated: when the wrapped COM object raises while a property is
\* read, the access yields None
C16_Original == FailingRead => result.res = Ok(NoValue)

\* C16, amended: when the wrapped COM object raises while a property of an
\* adapter class is read, the property does not yield None: an exception
\* reaches the caller
C16_ReadFailuresPropagate == FailingRead => result.res.kind # "ok"

\* Folder.name was read while the COM folder's Name raises
C16_Witness ==
    /\ FailingRead
    /\ cls = "Folder"
    /\ result.prop = "name"
    /\ result.res = Raise("com_error")

(***************************************************************************)
(* Enumeration members passed to methods                                   *)
(***************************************************************************)
\* a method whose last parameter is typed int | enumeration was called
EnumMethodCalled ==
    /\ MethodCalled
    /\ MethodOf(cls, mcall.method).enum # ""

\* C21: a method whose parameter admits an integer or an enumeration member
\* hands the COM object an integer: the member's value when given a member,
\* the same integer when given an integer
C21_EnumInputsAsIntegers ==
    EnumMethodCalled =>
        LET n == Len(mcall.args) IN
        /\ Len(mcall.invoked) = 1
        /\ Len(mcall.invoked[1].args) = n
        /\ mcall.invoked[1].args[n] = PyInt(mcall.args[n].value)

(***************************************************************************)
(* The body_format setter                                                  *)
(***************************************************************************)
\* the step mail_item.body_format = v
BodyFormatSet ==
    /\ cls = "MailItem"
    /\ writes' = writes + 1
    /\ result'.op = "set"
    /\ result'.prop = "body_format"

\* C22: MailItem.body_format = v fails and leaves the COM object's
\* BodyFormat as it was when v is an integer that is no body format; when v
\* is a body format (a member, or an integer that is a value of the
\* enumeration) BodyFormat becomes that integer
C22_BodyFormatSetter ==
    [][BodyFormatSet =>
          LET v == result'.arg IN
          IF v.value \in EnumValues("OlBodyFormat")
          THEN /\ result'.res.kind = "ok"
               /\ com'["BodyFormat"] = PyInt(v.value)
          ELSE /\ result'.res.kind # "ok"
               /\ com'["BodyFormat"] = com["BodyFormat"]]_vars

(***************************************************************************)
(* Properties of the Folder's list operations                              *)
(***************************************************************************)
\* C23: no list operation on a Folder, and no change of the list items()
\* returned, changes the sequence of items the Folder holds; item
\* assignment and item deletion fail with NotImplementedError
C23_ListImmutable ==
    /\ folder.data = folder.fetched
    /\ seen.op \in {"setitem", "delitem"} => seen.res = Raise("NotImplementedError")

(***************************************************************************)
(* Properties of parent navigation and of the wrapper lists                *)
(***************************************************************************)
\* C24: every NameSpace, Account, Folder and MailItem reached from an
\* Application has that Application as its application; an Account that
\* accounts returned has the NameSpace it was read from as its namespace; a
\* Folder that folders returned has its parent Folder's account, and that
\* account's namespace as its session
C24_ParentNavigation ==
    /\ \A x \in DOMAIN objects : application_of(objects, x) = objects[x].origin
    /\ nav.op = "accounts" =>
         \A i \in 1..Len(nav.made) : namespace_of(objects, nav.made[i]) = nav.on
    /\ nav.op = "folders" =>
         \A i \in 1..Len(nav.made) :
            /\ account_of(objects, nav.made[i]) = account_of(objects, nav.on)
            /\ session_of(objects, nav.made[i])
                 = namespace_of(objects, account_of(objects, nav.on))

\* a folder under the second Application was copied into a folder under the
\* first, and the copy's application is the second
C24_Witness ==
    /\ nav.op = "copy_to"
    /\ Len(nav.made) = 1
    /\ application_of(objects, nav.on) = 2
    /\ \E d \in DOMAIN objects :
         objects[d].cls = "Folder" /\ application_of(objects, d) = 1
    /\ application_of(objects, nav.made[1]) = 2

\* C25: accounts and folders return one new wrapper per element of the COM
\* collection as it is at that access, in the collection's order: the i-th
\* wrapper wraps the i-th element
C25_OneWrapperPerElement ==
    nav.op \in {"accounts", "folders"} =>
        /\ Len(nav.made) = Len(nav.coll)
        /\ \A i \in 1..Len(nav.made) :
             /\ nav.made[i] = Len(objects) - Len(nav.coll) + i
             /\ objects[nav.made[i]].com = nav.coll[i]
             /\ objects[nav.made[i]].cls =
                  (IF nav.op = "accounts" THEN "Account" ELSE "Folder")

\* accounts was read while the COM collection held account 2, then 1
C25_Witness ==
    /\ nav.op = "accounts"
    /\ nav.coll = <<2, 1>>
    /\ Len(nav.made) = 2
    /\ objects[nav.made[1]].com = 2
    /\ objects[nav.made[2]].com = 1

====
